---- MODULE Spec2Model ----
(***************************************************************************)
(* Document ingestion pipeline of the Adelphos AI tutor (intellitutor).    *)
(*                                                                         *)
(* The model follows one Material (Document) through the upload route,     *)
(* the asynchronous orchestrator processDocumentAsync and a reprocessing    *)
(* request; the scripts that write the material are part of VectorSpec.    *)
(* Every awaited operation of processDocumentAsync (external capability    *)
(* or record-store write) is two steps: Invoke starts it (a "pending"      *)
(* entry is appended to the run's log) and the stage's own action          *)
(* completes it with an outcome chosen by the environment.                 *)
(*                                                                         *)
(* Three further components have their own specification over their own   *)
(* variables: the SearchCache class (CacheSpec), executeWithRetry          *)
(* (RetrySpec) and the chat endpoint with searchRelevantChunks (ChatSpec). *)
(***************************************************************************)
EXTENDS Integers, Sequences, FiniteSets

\* ---------------------------------------------------------------- bounds
MaxChapters == 2     \* chapters detectChapters returns for one text, at most
MaxConcepts == 1     \* concepts one extractKeyConcepts call returns (or none)
MaxChunks   == 1     \* chunks chunkText returns for one text
MaxRuns     == 2     \* processing runs of the material (upload + reprocess)
MaxFailures == 2     \* failing awaited operations in one behaviour
MaxSpeaks   == 3     \* speak calls of the voice hook in one behaviour
MaxUploads  == 3     \* upload requests in one behaviour

Uploads == 1..MaxUploads

\* ------------------------------------------------------ program constants
SummaryPrefix == 10000   \* processed.text.slice(0, 10000)
BatchSize     == 100     \* const batchSize = 100 in upsertDocumentChunks

Placeholder == "Summary generation skipped due to API limits"
Generated   == "generated"
Unset       == "unset"

\* lengths of the extracted text: below and just above the summary prefix
ShortText == 4000
LongText  == 10001

Min(a, b) == IF a < b THEN a ELSE b

\* String.prototype.slice(0, n) applied to a text of length len: its length
SliceLen_whole(len, n) == len
SliceLen(len, n) == Min(len, n)

\* ------------------------------------------------------------ data shapes
\* chapter numbers in the order their headings occur in a text: headings
\* numbered 1..n in ascending or in descending order
Ascending(n)  == [k \in 1..n |-> k]
Descending(n) == [k \in 1..n |-> n + 1 - k]

\* the documents the extraction capability can return: short texts whose
\* headings ascend, and a long text with two headings in descending order;
\* chapters is the list of distinct heading numbers in text order and
\* nChunks the number of chunks the splitter cuts the text into
Documents ==
  {[textLen |-> ShortText, chapters |-> Ascending(n),
    nChunks |-> MaxChunks - 1] : n \in 1..(MaxChapters - 1)}
  \cup
  {[textLen |-> LongText, chapters |-> Descending(2),
    nChunks |-> MaxChunks]}

\* detectChapters(processed.text): the distinct chapter numbers, text order
DetectChapters(doc) == doc.chapters

\* chunkText(processed.text, 1000, 300).length
ChunkCount(doc) == doc.nChunks

\* the awaited operations of processDocumentAsync, in source order
ExternalOps == {"extract", "brief", "standard", "detailed", "questions",
                "concepts", "embedBatch", "upsertVectors", "wholeSummary"}
StoreOps    == {"updateMeta", "deleteChapters", "deleteConcepts",
                "upsertChapter", "createConcept", "deleteTextChunks",
                "createTextChunk", "markReady", "markError"}
ChapterOps  == {"brief", "standard", "detailed", "questions",
                "upsertChapter", "concepts", "createConcept"}

VARIABLES
  status,          \* Material.processingStatus ("NONE": no record yet)
  wholeSummary,    \* Material.wholeSummary
  chapterRows,     \* Chapter table rows of the material
  conceptRows,     \* Concept table rows of the material, in creation order
  textChunkRows,   \* TextChunk table: sequence indexes of the stored ids
  vectorRows,      \* vector index: sequence indexes of the stored ids
  indexConfigured, \* index !== null (PINECONE_API_KEY set)
  document,        \* the uploaded file: what processDocument reads from it
  run,             \* number of processDocumentAsync invocations so far
  hadRows,         \* the material had chapters and concepts when the run began
  pc,              \* the awaited operation the run is at
  phase,           \* "call": about to invoke it, "await": it is in flight
  processed,       \* result of processDocument (the extracted document)
  chapters,        \* detectChapters(processed.text): the chapter numbers
  i,               \* loop index of the chapter loop (1-based)
  cur,             \* summaryBrief/Standard/Detailed, practiceQuestions locals
  pending,         \* concepts of the current chapter still to be created
  nChunks,         \* chunks.length in step 4
  j,               \* next chunk (textChunk.create) or batch start (upsert)
  wholeLocal,      \* local wholeSummary of step 5
  summaryInputLen, \* length of the text passed to generateSummary in step 5
  outcome,         \* how the run ended
  log,             \* awaited operations of the current run, in start order
  failures         \* failed awaited operations so far

\* the SearchCache object of lib/search-cache.ts
VARIABLES
  cache,           \* this.cache: the Map's entries in insertion order
  maxSize,         \* this.maxSize (0: the object is not constructed yet)
  now,             \* Date.now()
  sets,            \* number of set calls so far
  lastGet,         \* argument and return value of a get call just made
  emptiedAt,       \* value of sets when the Map was created or cleared, if
                   \* every set since then has inserted a new key and no
                   \* get has deleted an entry; -1 otherwise
  firstIn          \* argument of the first set call after emptiedAt

cacheVars == <<cache, maxSize, now, sets, lastGet, emptiedAt, firstIn>>

\* one call of executeWithRetry (lib/prisma.ts)
VARIABLES
  rPc,             \* position of the call: "idle", "loop", "await",
                   \* "backoff", "exit", "done"
  maxRetries,      \* the maxRetries argument
  attempt,         \* the loop variable
  calls,           \* invocations of operation() so far
  inFlight,        \* invocations of operation() not yet settled
  lastError,       \* the local lastError
  lastThrown,      \* the value the last failed attempt threw
  rResult,         \* how executeWithRetry settled: returned or thrown value
  rLog             \* starts, failures, successes and waits, in order

retryVars == <<rPc, maxRetries, attempt, calls, inFlight, lastError,
               lastThrown, rResult, rLog>>

\* requests to the chat endpoint (POST), one at a time
VARIABLES
  cPc,             \* position of the request being served
  req,             \* its body: { materialId, question, conversationHistory }
  requests,        \* requests received so far
  matches,         \* results.matches of index.query
  textRows,        \* ids of the rows textChunk.findMany returned
  relevantChunks,  \* the local relevantChunks
  chatLog,         \* operations the request has performed, in order
  resp             \* the response sent

chatVars == <<cPc, req, requests, matches, textRows, relevantChunks,
              chatLog, resp>>

\* the vector store adapter (lib/pinecone), its caller in the processing run,
\* the DELETE endpoint and one run of a maintenance script
\* (vectorize-material or upload-vectors-batch), for one material
VARIABLES
  vIndex,          \* the records of the vector index
  vChunks,         \* the rows of the textChunk table
  vPc,             \* position of the run from step 4 on
  vN,              \* chunks.length of the run
  vI,              \* loop variable of the loop the run is in
  vLog,            \* awaited operations of the run, in order
  vUpsert,         \* how upsertDocumentChunks settled
  vFailures,       \* operations of the run that have failed
  vDelete,         \* how the last deleteMaterialVectors call settled
  vSearch,         \* what the last searchRelevantChunks call did
  vDeleteReq,      \* the DELETE request: none, deleted (record gone, not
                   \* yet answered) or answered
  sPc,             \* position of the script
  sN,              \* bound of the script's loop: limit, textChunks.length
  sI,              \* loop variable of the script
  sIndexed,        \* sequence indexes of the chunks the script has uploaded
  sPending         \* sequence indexes in the local vectors of the script

vectorVars == <<vIndex, vChunks, vPc, vN, vI, vLog, vUpsert,
                vFailures, vDelete, vSearch, vDeleteReq, sPc, sN, sI, sIndexed,
                sPending>>

\* calls of the pure functions detectChapters and normalizeConceptCategory
VARIABLES
  dcText,          \* text of the last detectChapters call
  dcChapters,      \* what it returned
  ncValue,         \* argument of the last normalizeConceptCategory call
  ncEnum,          \* the members of ConceptCategory
  ncResult         \* what it returned

pureVars == <<dcText, dcChapters, ncValue, ncEnum, ncResult>>

\* one call of chunkText
VARIABLES
  ctText,          \* text of the chunkText call
  ctSize,          \* its chunkSize
  ctOverlap,       \* its overlap
  ctResult,        \* what it returned or that it threw
  ctCalled         \* whether chunkText was called

splitVars == <<ctText, ctSize, ctOverlap, ctResult, ctCalled>>

\* the voice hook: state and refs of useGoogleVoiceAssistant
VARIABLES
  isSpeaking,      \* the isSpeaking state
  isGeneratingRef, \* isGeneratingRef.current
  audioRef,        \* audioRef.current: 0 for null, else the speak call that made it
  audioUrlRef,     \* audioUrlRef.current, likewise
  abortControllerRef, \* abortControllerRef.current, likewise
  aborted,         \* the controllers abort() was called on
  audioCacheRef,   \* the texts with a cached audio blob
  spPc,            \* where every speak call stands
  spText,          \* the text of every speak call
  audioState       \* the state of the audio every speak call made

voiceVars == <<isSpeaking, isGeneratingRef, audioRef, audioUrlRef, abortControllerRef, aborted, audioCacheRef, spPc, spText, audioState>>

\* the upload route: stored materials and the requests in flight
VARIABLES
  materials,       \* the material records of the user, in the order of creation
  upPc,            \* where every upload request stands
  upFile,          \* the file of every request
  upCheck,         \* what the duplicate check of every request gave
  upResp,          \* the response of every request
  upRuns,          \* the materials processDocumentAsync was started for
  delPc,           \* where the DELETE request stands: idle, delete, unlink
  delId,           \* the id of the DELETE request in flight, else 0
  delResp          \* the status of the last DELETE response, 0 before it

deleteVars == <<delPc, delId, delResp>>

uploadVars == <<materials, upPc, upFile, upCheck, upResp, upRuns, deleteVars>>

\* the components the ingestion pipeline never touches
others == <<cacheVars, retryVars, chatVars, vectorVars,
  pureVars,
  splitVars,
  voiceVars,
  uploadVars>>

vars == <<status, wholeSummary, chapterRows, conceptRows, textChunkRows,
          vectorRows, indexConfigured, document, run, hadRows, pc, phase,
          processed,
          chapters, i,
          cur, pending, nChunks, j, wholeLocal, summaryInputLen, outcome,
          log, failures, others>>

material == <<status, wholeSummary>>
stores   == <<chapterRows, conceptRows, textChunkRows, vectorRows>>
locals   == <<processed, chapters, i, cur, pending, nChunks, j, wholeLocal,
              summaryInputLen>>

\* everything the ingestion pipeline reads or writes
pipeline == <<status, wholeSummary, stores, indexConfigured, document, run,
              hadRows, pc,
              phase, locals, outcome, log, failures>>

\* what the operations of one component leave alone
notCache == <<pipeline, retryVars, chatVars, vectorVars,
  pureVars,
  splitVars,
  voiceVars,
  uploadVars>>
notRetry == <<pipeline, cacheVars, chatVars, vectorVars,
  pureVars,
  splitVars,
  voiceVars,
  uploadVars>>

\* --------------------------------------------------- control flow of the run
\* let summaryBrief = ..., summaryStandard = ..., summaryDetailed = ...,
\* let practiceQuestions = []
InitialLocals_unset ==
  [brief |-> Unset, standard |-> Unset, detailed |-> Unset,
   questions |-> Unset]
InitialLocals ==
  [brief |-> Placeholder, standard |-> Placeholder, detailed |-> Placeholder,
   questions |-> "empty"]

\* processingStatus written by prisma.material.create in the upload route
InitialStatus_pending == "PENDING"
InitialStatus == "PROCESSING"

\* } catch (error: unknown) { ... prisma.material.update(ERROR) }
CatchOuter_continue == "deleteChapters"
CatchOuter == "markError"

\* catch of the summary block: falls through to the practice questions
CatchSummaries == "questions"

\* statements following each summary call inside the summary try block
AfterBrief    == "standard"
AfterStandard == "detailed"
AfterDetailed == "questions"

\* the practice-question try/catch is followed by the chapter upsert
AfterQuestions == "upsertChapter"

\* the chapter upsert is followed by the concept try block
AfterUpsertChapter == "concepts"

\* the step-4 catch logs the failure and falls through to step 5
CatchVectors_rethrow == "markError"
CatchVectors == "wholeSummary"

\* upsertDocumentChunks returned: step 5 follows
AfterVectors == "wholeSummary"

\* the step-5 try/catch is followed by the READY update
AfterWholeSummary == "markReady"

\* first awaited operation of upsertDocumentChunks: if (!index) return
Step4Entry(configured) ==
  IF configured THEN "deleteTextChunks" ELSE AfterVectors

\* step 4 from its try on: chunkText(processed.text, 1000, 300) returns and
\* upsertDocumentChunks is called, or it throws and the catch of step 4 goes
\* on to step 5 without a call of upsertDocumentChunks
Step4(configured, chunked) ==
  IF chunked THEN Step4Entry(configured) ELSE CatchVectors

\* end of one iteration of the chapter loop (also reached from the concept
\* catch): i++ and either the next chapter or step 4
AfterChapter_offByOne(idx, chs, configured, chunked) ==
  IF idx + 1 < Len(chs) THEN "brief" ELSE Step4(configured, chunked)
AfterChapter(idx, chs, configured, chunked) ==
  IF idx < Len(chs) THEN "brief" ELSE Step4(configured, chunked)

\* the rows deleteMany({ where: { materialId } }) leaves in a table
DeleteManyChapters(rows) == {}
DeleteManyConcepts_keep(rows) == rows
DeleteManyConcepts(rows) == <<>>
DeleteManyTextChunks(rows) == {}

\* prisma.chapter.upsert on the composite key (materialId, number)
UpsertChapter(rows, row) ==
  {r \in rows : r.number # row.number} \cup {row}

\* data written by the final READY update: { processingStatus, wholeSummary }
ReadyUpdate(old, local) == local

\* value of processed before extraction has returned
NoDocument == [textLen |-> 0, chapters |-> <<>>, nChunks |-> 0]

\* ----------------------------------------------------------------- Init
Init ==
  /\ status = "NONE"
  /\ wholeSummary = "null"
  /\ chapterRows = {}
  /\ conceptRows = <<>>
  /\ textChunkRows = {}
  /\ vectorRows = {}
  /\ indexConfigured \in BOOLEAN
  /\ document = NoDocument
  /\ run = 0
  /\ hadRows = FALSE
  /\ pc = "idle"
  /\ phase = "call"
  /\ processed = NoDocument
  /\ chapters = <<>>
  /\ i = 0
  /\ cur = InitialLocals
  /\ pending = 0
  /\ nChunks = 0
  /\ j = 0
  /\ wholeLocal = "null"
  /\ summaryInputLen = -1
  /\ outcome = "none"
  /\ log = <<>>
  /\ failures = 0
  /\ cache = <<>>
  /\ maxSize = 0
  /\ now = 0
  /\ sets = 0
  /\ lastGet = [arg |-> 0, ret |-> 0, kind |-> "none"]
  /\ emptiedAt = 0
  /\ firstIn = 0
  /\ rPc = "idle"
  /\ maxRetries = 0
  /\ attempt = 0
  /\ calls = 0
  /\ inFlight = 0
  /\ lastError = [tag |-> "null", code |-> "undefined", message |-> <<>>,
                  id |-> 0]
  /\ lastThrown = lastError
  /\ rResult = [how |-> "none", value |-> lastError]
  /\ rLog = <<>>
  /\ cPc = "idle"
  /\ req = [materialId |-> <<>>, question |-> <<>>,
            conversationHistory |-> "undefined"]
  /\ requests = 0
  /\ matches = <<>>
  /\ textRows = {}
  /\ relevantChunks = <<>>
  /\ chatLog = <<>>
  /\ resp = [code |-> 0, relevantPages |-> <<>>, context |-> <<>>]
  /\ vIndex = {}
  /\ vChunks = {}
  /\ vPc = "idle"
  /\ vN = 0
  /\ vI = 0
  /\ vLog = <<>>
  /\ vUpsert = "none"
  /\ vFailures = 0
  /\ vDelete = "none"
  /\ vSearch = [embedded |-> FALSE, threw |-> FALSE, found |-> -1]
  /\ vDeleteReq = "none"
  /\ sPc = "idle"
  /\ sN = 0
  /\ sI = 0
  /\ sIndexed = {}
  /\ sPending = {}
  /\ dcText = <<>>
  /\ dcChapters = <<>>
  /\ ncValue = <<>>
  /\ ncEnum = {}
  /\ ncResult = <<>>
  /\ ctText = <<>>
  /\ ctSize = 0
  /\ ctOverlap = 0
  /\ ctResult = [ok |-> FALSE, chunks |-> <<>>]
  /\ ctCalled = FALSE
  /\ isSpeaking = FALSE
  /\ isGeneratingRef = FALSE
  /\ audioRef = 0
  /\ audioUrlRef = 0
  /\ abortControllerRef = 0
  /\ aborted = {}
  /\ audioCacheRef = {}
  /\ spPc = [sp \in 1..MaxSpeaks |-> "idle"]
  /\ spText = [sp \in 1..MaxSpeaks |-> "none"]
  /\ audioState = [sp \in 1..MaxSpeaks |-> "none"]
  /\ materials = <<>>
  /\ upPc = [u \in Uploads |-> "idle"]
  /\ upFile = [u \in Uploads |->
                [name |-> "none", size |-> 0, defect |-> "none"]]
  /\ upCheck = [u \in Uploads |-> "none"]
  /\ upResp = [u \in Uploads |-> [code |-> 0, id |-> 0, duplicate |-> FALSE]]
  /\ upRuns = {}
  /\ delPc = "idle"
  /\ delId = 0
  /\ delResp = 0

\* entry of processDocumentAsync: fresh locals, first operation is extraction
StartRun ==
  /\ run' = run + 1
  /\ hadRows' = (chapterRows # {} /\ conceptRows # <<>>)
  /\ pc' = "extract"
  /\ phase' = "call"
  /\ processed' = NoDocument
  /\ chapters' = <<>>
  /\ i' = 0
  /\ cur' = InitialLocals
  /\ pending' = 0
  /\ nChunks' = 0
  /\ j' = 0
  /\ wholeLocal' = "null"
  /\ summaryInputLen' = -1
  /\ outcome' = "none"
  /\ log' = <<>>

\* POST /api/materials (upload): the file is stored, the material record is
\* created and the orchestrator is started without being awaited
Upload ==
  /\ status = "NONE"
  /\ pc = "idle"
  /\ status' = InitialStatus
  /\ wholeSummary' = "null"
  /\ StartRun
  /\ \E doc \in Documents : document' = doc
  /\ UNCHANGED <<stores, indexConfigured, failures, others>>

\* a reprocessing request for a material whose last run has finished; the
\* new run reads the file the upload stored
Reprocess ==
  /\ status \in {"READY", "ERROR"}
  /\ pc = "done"
  /\ run < MaxRuns
  /\ status' = "PROCESSING"
  /\ StartRun
  /\ UNCHANGED <<wholeSummary, stores, indexConfigured, document, failures,
                 others>>

\* the run reaches an await: the operation is started.  The setTimeout
\* delays awaited before a call cannot throw and change no state; they are
\* part of this step.
Invoke ==
  /\ pc \notin {"idle", "done"}
  /\ phase = "call"
  /\ phase' = "await"
  /\ log' = Append(log, [op |-> pc,
                         ch |-> IF pc \in ChapterOps THEN i ELSE 0,
                         res |-> "pending"])
  /\ summaryInputLen' = IF pc = "wholeSummary"
                          THEN SliceLen(processed.textLen, SummaryPrefix)
                          ELSE summaryInputLen
  /\ UNCHANGED <<material, stores, indexConfigured, document, run, hadRows, pc,
                 processed, chapters, i, cur, pending, nChunks, j, wholeLocal,
                 outcome, failures, others>>

\* how many operations may have failed before this one fails: the update of
\* the catch block runs after a failure and may fail as well
FailureBudget(stage) ==
  IF stage = "markError" THEN MaxFailures + 1 ELSE MaxFailures

\* the operation in flight returns (ok) or throws; control moves to next
Complete(stage, ok, next) ==
  /\ pc = stage
  /\ phase = "await"
  /\ ~ok => failures < FailureBudget(stage)
  /\ log' = [log EXCEPT ![Len(log)].res = IF ok THEN "ok" ELSE "fail"]
  /\ failures' = IF ok THEN failures ELSE failures + 1
  /\ pc' = next
  /\ phase' = "call"
  /\ UNCHANGED <<indexConfigured, document, run, hadRows, summaryInputLen,
                 others>>

\* ------------------------------------------- steps of processDocumentAsync
\* Step 1: const processed = await processDocument(filePath, fileType)
ExtractText ==
  \E ok \in BOOLEAN :
    /\ Complete("extract", ok, IF ok THEN "updateMeta" ELSE CatchOuter)
    /\ processed' = IF ok THEN document ELSE processed
    /\ UNCHANGED <<material, stores, chapters, i, cur, pending, nChunks, j,
                   wholeLocal, outcome>>

\* await prisma.material.update({ pageCount, author }); then Step 2:
\* const chapters = detectChapters(processed.text)
UpdateMeta ==
  \E ok \in BOOLEAN :
    /\ Complete("updateMeta", ok, IF ok THEN "deleteChapters" ELSE CatchOuter)
    /\ chapters' = IF ok THEN DetectChapters(processed) ELSE chapters
    /\ UNCHANGED <<material, stores, processed, i, cur, pending, nChunks, j,
                   wholeLocal, outcome>>

\* await prisma.chapter.deleteMany({ where: { materialId } })
DeleteChapters ==
  \E ok \in BOOLEAN :
    /\ Complete("deleteChapters", ok,
                IF ok THEN "deleteConcepts" ELSE CatchOuter)
    /\ chapterRows' = IF ok THEN DeleteManyChapters(chapterRows)
                            ELSE chapterRows
    /\ UNCHANGED <<material, conceptRows, textChunkRows, vectorRows, locals,
                   outcome>>

\* await prisma.concept.deleteMany({ where: { materialId } }); the chapter
\* loop starts with its first chapter (detectChapters never returns [])
DeleteConcepts ==
  \E ok \in BOOLEAN :
    /\ Complete("deleteConcepts", ok, IF ok THEN "brief" ELSE CatchOuter)
    /\ conceptRows' = IF ok THEN DeleteManyConcepts(conceptRows)
                            ELSE conceptRows
    /\ i' = IF ok THEN 1 ELSE i
    /\ UNCHANGED <<material, chapterRows, textChunkRows, vectorRows, processed,
                   chapters, cur, pending, nChunks, j, wholeLocal,
                   summaryInputLen, outcome>>

\* summaryBrief = await generateSummary(chapterText, 'brief')
Brief ==
  \E ok \in BOOLEAN :
    /\ Complete("brief", ok, IF ok THEN AfterBrief ELSE CatchSummaries)
    /\ cur' = IF ok THEN [cur EXCEPT !.brief = Generated] ELSE cur
    /\ UNCHANGED <<material, stores, processed, chapters, i, pending, nChunks,
                   j, wholeLocal, outcome>>

\* summaryStandard = await generateSummary(chapterText, 'standard')
Standard ==
  \E ok \in BOOLEAN :
    /\ Complete("standard", ok, IF ok THEN AfterStandard ELSE CatchSummaries)
    /\ cur' = IF ok THEN [cur EXCEPT !.standard = Generated] ELSE cur
    /\ UNCHANGED <<material, stores, processed, chapters, i, pending, nChunks,
                   j, wholeLocal, outcome>>

\* summaryDetailed = await generateSummary(chapterText, 'detailed')
Detailed ==
  \E ok \in BOOLEAN :
    /\ Complete("detailed", ok, IF ok THEN AfterDetailed ELSE CatchSummaries)
    /\ cur' = IF ok THEN [cur EXCEPT !.detailed = Generated] ELSE cur
    /\ UNCHANGED <<material, stores, processed, chapters, i, pending, nChunks,
                   j, wholeLocal, outcome>>

\* practiceQuestions = await generatePracticeQuestions(chapterText, 5)
Questions ==
  \E ok \in BOOLEAN :
    /\ Complete("questions", ok, AfterQuestions)
    /\ cur' = IF ok THEN [cur EXCEPT !.questions = Generated] ELSE cur
    /\ UNCHANGED <<material, stores, processed, chapters, i, pending, nChunks,
                   j, wholeLocal, outcome>>

\* the create/update payload of the chapter upsert
ChapterRow(number, gen, l) ==
  [number |-> number, gen |-> gen,
   summaryBrief |-> l.brief, summaryStandard |-> l.standard,
   summaryDetailed |-> l.detailed, practiceQuestions |-> l.questions]

\* await prisma.chapter.upsert({ where: { materialId_number }, ... })
UpsertChapterRow ==
  \E ok \in BOOLEAN :
    /\ Complete("upsertChapter", ok,
                IF ok THEN AfterUpsertChapter ELSE CatchOuter)
    /\ chapterRows' = IF ok
                        THEN UpsertChapter(chapterRows,
                                           ChapterRow(chapters[i], run, cur))
                        ELSE chapterRows
    /\ UNCHANGED <<material, conceptRows, textChunkRows, vectorRows, locals,
                   outcome>>

\* processedChapters++, i++: the locals of the next iteration are fresh
LeaveChapter ==
  /\ i' = i + 1
  /\ cur' = InitialLocals
  /\ pending' = 0

\* const concepts = await extractKeyConcepts(chapterText)
Concepts ==
  \E ok \in BOOLEAN, chunked \in BOOLEAN :
    \E k \in {0, MaxConcepts} :
      /\ ~ok => k = 0
      /\ Complete("concepts", ok,
                  IF k > 0 THEN "createConcept"
                           ELSE AfterChapter(i, chapters, indexConfigured,
                                             chunked))
      /\ IF k > 0
           THEN pending' = k /\ UNCHANGED <<i, cur>>
           ELSE LeaveChapter
      /\ UNCHANGED <<material, stores, processed, chapters, nChunks, j,
                     wholeLocal, outcome>>

\* await prisma.concept.create({ data: { ..., chapterNumber } }) in the
\* for-of loop; a throw is caught by the concept catch
CreateConcept ==
  \E ok \in BOOLEAN, chunked \in BOOLEAN :
    /\ Complete("createConcept", ok,
                IF ok /\ pending > 1
                  THEN "createConcept"
                  ELSE AfterChapter(i, chapters, indexConfigured, chunked))
    /\ conceptRows' = IF ok
                        THEN Append(conceptRows,
                                    [chapterNumber |-> chapters[i],
                                     gen |-> run, term |-> pending])
                        ELSE conceptRows
    /\ IF ok /\ pending > 1
         THEN pending' = pending - 1 /\ UNCHANGED <<i, cur>>
         ELSE LeaveChapter
    /\ UNCHANGED <<material, chapterRows, textChunkRows, vectorRows, processed,
                   chapters, nChunks, j, wholeLocal, outcome>>

\* Step 4: chunks = chunkText(processed.text, 1000, 300), then in
\* upsertDocumentChunks: await prisma.textChunk.deleteMany(...)
DeleteTextChunks ==
  \E ok \in BOOLEAN :
    /\ Complete("deleteTextChunks", ok,
                IF ~ok THEN CatchVectors
                ELSE IF ChunkCount(processed) > 0 THEN "createTextChunk"
                                                  ELSE "embedBatch")
    /\ textChunkRows' = IF ok THEN DeleteManyTextChunks(textChunkRows)
                              ELSE textChunkRows
    /\ nChunks' = ChunkCount(processed)
    /\ j' = 0
    /\ UNCHANGED <<material, chapterRows, conceptRows, vectorRows, processed,
                   chapters, i, cur, pending, wholeLocal, outcome>>

\* await prisma.textChunk.create({ data: { id: chunk.id, ... } })
CreateTextChunk ==
  \E ok \in BOOLEAN :
    /\ Complete("createTextChunk", ok,
                IF ~ok THEN CatchVectors
                ELSE IF j + 1 < nChunks THEN "createTextChunk"
                                        ELSE "embedBatch")
    /\ textChunkRows' = IF ok THEN textChunkRows \cup {j} ELSE textChunkRows
    /\ j' = IF ok THEN j + 1 ELSE j
    /\ UNCHANGED <<material, chapterRows, conceptRows, vectorRows, processed,
                   chapters, i, cur, pending, nChunks, wholeLocal, outcome>>

\* const embeddings = await generateLocalEmbeddingsBatch(texts)
EmbedBatch ==
  \E ok \in BOOLEAN :
    /\ Complete("embedBatch", ok,
                IF ~ok THEN CatchVectors
                ELSE IF nChunks > 0 THEN "upsertVectors" ELSE AfterVectors)
    /\ j' = 0
    /\ UNCHANGED <<material, stores, processed, chapters, i, cur, pending,
                   nChunks, wholeLocal, outcome>>

\* await index.upsert(vectors.slice(i, i + batchSize))
UpsertVectors ==
  \E ok \in BOOLEAN :
    /\ Complete("upsertVectors", ok,
                IF ~ok THEN CatchVectors
                ELSE IF j + BatchSize < nChunks THEN "upsertVectors"
                                                ELSE AfterVectors)
    /\ vectorRows' = IF ok
                       THEN vectorRows \cup
                              (j .. (Min(j + BatchSize, nChunks) - 1))
                       ELSE vectorRows
    /\ j' = IF ok THEN j + BatchSize ELSE j
    /\ UNCHANGED <<material, chapterRows, conceptRows, textChunkRows, processed,
                   chapters, i, cur, pending, nChunks, wholeLocal, outcome>>

\* Step 5: wholeSummary = await generateSummary(text.slice(0, 10000), ...)
WholeSummary ==
  \E ok \in BOOLEAN :
    /\ Complete("wholeSummary", ok, AfterWholeSummary)
    /\ wholeLocal' = IF ok THEN Generated ELSE wholeLocal
    /\ UNCHANGED <<material, stores, processed, chapters, i, cur, pending,
                   nChunks, j, outcome>>

\* await prisma.material.update({ processingStatus: 'READY', wholeSummary })
MarkReady ==
  \E ok \in BOOLEAN :
    /\ Complete("markReady", ok, IF ok THEN "done" ELSE CatchOuter)
    /\ status' = IF ok THEN "READY" ELSE status
    /\ wholeSummary' = IF ok THEN ReadyUpdate(wholeSummary, wholeLocal)
                             ELSE wholeSummary
    /\ outcome' = IF ok THEN "ready" ELSE outcome
    /\ UNCHANGED <<stores, processed, chapters, i, cur, pending, nChunks, j,
                   wholeLocal>>

\* catch: await prisma.material.update({ processingStatus: 'ERROR' }); when
\* this update throws the promise of the run is rejected
MarkError ==
  \E ok \in BOOLEAN :
    /\ Complete("markError", ok, "done")
    /\ status' = IF ok THEN "ERROR" ELSE status
    /\ outcome' = IF ok THEN "error" ELSE "rejected"
    /\ UNCHANGED <<wholeSummary, stores, processed, chapters, i, cur, pending,
                   nChunks, j, wholeLocal>>

Next ==
  \/ Upload
  \/ Reprocess
  \/ Invoke
  \/ ExtractText
  \/ UpdateMeta
  \/ DeleteChapters
  \/ DeleteConcepts
  \/ Brief
  \/ Standard
  \/ Detailed
  \/ Questions
  \/ UpsertChapterRow
  \/ Concepts
  \/ CreateConcept
  \/ DeleteTextChunks
  \/ CreateTextChunk
  \/ EmbedBatch
  \/ UpsertVectors
  \/ WholeSummary
  \/ MarkReady
  \/ MarkError

Spec == Init /\ [][Next]_vars

\* ------------------------------------------------------------- type check
TypeOK ==
  /\ status \in {"NONE", "PROCESSING", "READY", "ERROR"}
  /\ wholeSummary \in {"null", Generated}
  /\ run \in 0..MaxRuns
  /\ phase \in {"call", "await"}
  /\ pc \in ExternalOps \cup StoreOps \cup {"idle", "done"}
  /\ outcome \in {"none", "ready", "error", "rejected"}
  /\ failures \in 0..(MaxFailures + 1)

\* ------------------------------------------------- reading the run's log
Called(op, c) ==
  \E k \in DOMAIN log : log[k].op = op /\ log[k].ch = c

Succeeded(op, c) ==
  \E k \in DOMAIN log : log[k].op = op /\ log[k].ch = c /\ log[k].res = "ok"

Failed(op, c) ==
  \E k \in DOMAIN log : log[k].op = op /\ log[k].ch = c /\ log[k].res = "fail"

ExtractFailed == Failed("extract", 0)

\* record-store writes of the run that no local try/catch encloses
UnguardedStoreOps ==
  {"updateMeta", "deleteChapters", "deleteConcepts", "upsertChapter",
   "markReady"}

UnguardedStoreFailed ==
  \E k \in DOMAIN log : log[k].op \in UnguardedStoreOps /\ log[k].res = "fail"

FailedEntries == {k \in DOMAIN log : log[k].res = "fail"}

\* position of a chapter number in the detected list
ChapterIndex(number) == CHOOSE c \in DOMAIN chapters : chapters[c] = number

\* the enrichment sub-steps of one chapter, in source order
Enrichment == <<"brief", "standard", "detailed", "questions", "concepts">>

\* ------------------------------------------------------------------ C1
\* C1 (as claimed): a run ends with status ERROR only if the extraction
\* stage failed.  The code also ends in ERROR when an unguarded record-store
\* write (metadata update, deleteMany, chapter upsert, READY update) throws.
C1_ErrorOnlyIfExtractionFailed ==
  (pc = "done" /\ outcome = "error") => ExtractFailed

\* ------------------------------------------------------------------ C2
\* C2: when extraction succeeded and no unguarded record-store write threw,
\* the run ends READY whatever external summary, question, concept,
\* embedding / vector-upsert or whole-summary calls failed.
C2_ReadyDespiteEnrichmentFailures ==
  (pc = "done" /\ Succeeded("extract", 0) /\ ~UnguardedStoreFailed)
    => (outcome = "ready" /\ status = "READY")

\* a run that ended READY although two of its enrichment and indexing
\* operations failed: a summary call of a chapter and the whole-document
\* summary
C2_Witness ==
  /\ pc = "done"
  /\ outcome = "ready"
  /\ status = "READY"
  /\ Cardinality(FailedEntries) = MaxFailures
  /\ \A k \in FailedEntries : log[k].op \in ExternalOps
  /\ \E k \in FailedEntries : log[k].op = "brief"
  /\ \E k \in FailedEntries : log[k].op = "wholeSummary"

\* ------------------------------------------------------------------ C3
\* C3: once extraction has failed, every further step of the run leaves the
\* chapter, concept, text-chunk and vector stores untouched and starts no
\* operation other than the ERROR update, and the run ends with that update
\* (status ERROR, or a rejected promise when the update itself throws).
C3_ExtractionFailureIsImmediate ==
  [][ (ExtractFailed' /\ (pc' # pc \/ log' # log))
        => /\ UNCHANGED stores
           /\ \A k \in DOMAIN log' : log'[k].op \in {"extract", "markError"}
           /\ (pc' = "done" =>
                 (status' = "ERROR" \/ outcome' = "rejected")) ]_vars

\* a reprocessing run whose extraction failed: ERROR, earlier rows untouched
C3_Witness ==
  /\ ExtractFailed
  /\ pc = "done"
  /\ status = "ERROR"
  /\ hadRows
  /\ chapterRows # {}

\* ------------------------------------------------------------------ C4
\* C4 (as claimed): a Document is PENDING when it is created and PROCESSING
\* is entered only from PENDING, or from READY/ERROR by reprocessing.
C4_CreatedPending ==
  [][ /\ (status = "NONE" /\ status' # "NONE") => status' = "PENDING"
      /\ (status' = "PROCESSING" /\ status # "PROCESSING")
            => status \in {"PENDING", "READY", "ERROR"} ]_vars

\* C4 (amended): a Document is created directly in PROCESSING (PENDING is
\* never stored); PROCESSING is left only for READY or ERROR and is entered
\* again only from READY/ERROR by a reprocessing request that starts a run.
C4_CreatedProcessing ==
  [][ /\ (status = "NONE" /\ status' # "NONE") => status' = "PROCESSING"
      /\ status' # "PENDING"
      /\ (status = "PROCESSING" /\ status' # status)
            => status' \in {"READY", "ERROR"}
      /\ (status' = "PROCESSING" /\ status # "PROCESSING")
            => \/ status = "NONE"
               \/ status \in {"READY", "ERROR"} /\ run' = run + 1 ]_vars

\* the material is PROCESSING again in its second run
C4_Witness ==
  /\ status = "PROCESSING"
  /\ run = 2
  /\ pc = "extract"

\* ------------------------------------------------------------------ C5
\* C5 (as claimed): once the status is READY or ERROR nothing changes it
\* except a reprocessing request, which sets PROCESSING (the record may be
\* deleted: status NONE).  Read under VectorSpec, which has the scripts.
C5_TerminalStatusStable ==
  [][ (status \in {"READY", "ERROR"} /\ status' \notin {status, "NONE"})
        => (status' = "PROCESSING" /\ run' = run + 1) ]_vars

\* ------------------------------------------------------------------ C6
\* C6 (as claimed): within a chapter a later enrichment sub-step is called
\* only after every earlier one was called too, i.e. no sub-step is skipped
\* because another one failed.
C6_SubStepsIndependent ==
  \A c \in DOMAIN chapters :
    \A a, b \in DOMAIN Enrichment :
      (a < b /\ Called(Enrichment[b], c)) => Called(Enrichment[a], c)

\* ------------------------------------------------------------------ C7
\* C7: every stored chapter row has its three summaries set, each the
\* generated text exactly when that generation succeeded in the run that
\* wrote the row and the placeholder otherwise, and a practice-question list
\* that is empty exactly when generation did not succeed; a chapter whose
\* concept extraction failed has no concept row.
C7_StoredChaptersComplete ==
  /\ \A r \in chapterRows :
       /\ r.summaryBrief \in {Generated, Placeholder}
       /\ r.summaryStandard \in {Generated, Placeholder}
       /\ r.summaryDetailed \in {Generated, Placeholder}
       /\ r.practiceQuestions \in {Generated, "empty"}
       /\ r.gen = run =>
            LET c == ChapterIndex(r.number)
            IN  /\ r.summaryBrief = Generated <=> Succeeded("brief", c)
                /\ r.summaryStandard = Generated <=> Succeeded("standard", c)
                /\ r.summaryDetailed = Generated <=> Succeeded("detailed", c)
                /\ r.practiceQuestions = Generated <=> Succeeded("questions", c)
  /\ \A c \in DOMAIN chapters :
       Failed("concepts", c) =>
         \A k \in DOMAIN conceptRows :
           conceptRows[k].chapterNumber # chapters[c]

\* a stored chapter with a generated brief summary and placeholder standard
\* and detailed summaries, after the standard summary call failed
C7_Witness ==
  \E r \in chapterRows :
    /\ r.gen = run
    /\ r.summaryBrief = Generated
    /\ r.summaryStandard = Placeholder
    /\ r.summaryDetailed = Placeholder
    /\ Failed("standard", ChapterIndex(r.number))

\* ------------------------------------------------------------------ C8
SourceOrder ==
  <<"extract", "updateMeta", "deleteChapters", "deleteConcepts", "brief",
    "standard", "detailed", "questions", "upsertChapter", "concepts",
    "createConcept", "deleteTextChunks", "createTextChunk", "embedBatch",
    "upsertVectors", "wholeSummary", "markReady", "markError">>

RankOf ==
  [op \in ExternalOps \cup StoreOps |->
     CHOOSE k \in DOMAIN SourceOrder : SourceOrder[k] = op]

Rank(op) == RankOf[op]

\* operations a loop of the source repeats
RepeatableOps == {"createConcept", "createTextChunk", "upsertVectors"}

Step45Ops == {"deleteTextChunks", "createTextChunk", "embedBatch",
              "upsertVectors", "wholeSummary", "markReady"}

\* place of a log entry in the sequential order of one run: the four
\* operations before the loop, then chapter by chapter, then steps 4 and 5
Place(e) ==
  IF e.ch # 0 THEN 100 * e.ch + Rank(e.op)
  ELSE IF e.op \in Step45Ops \cup {"markError"}
         THEN 100 * (Len(chapters) + 1) + Rank(e.op)
         ELSE Rank(e.op)

ConceptStepDone(e, c) ==
  /\ e.op \in {"concepts", "createConcept"}
  /\ e.ch = c
  /\ e.res # "pending"

\* C8: at most one operation of a run is in flight, and it is the one started
\* last; operations start in source order, chapter by chapter in detected
\* order (brief, standard, detailed, questions, chapter write, concepts), a
\* chapter starts only when the concept step of the previous chapter has
\* completed, and chunk/embed/index and the whole-document summary start
\* only when the concept step of the last chapter has completed.
C8_StrictlySequential ==
  /\ \A k \in DOMAIN log : log[k].res = "pending" => k = Len(log)
  /\ \A k \in 1..(Len(log) - 1) :
       LET e == log[k]
           f == log[k + 1]
       IN  /\ \/ Place(e) < Place(f)
              \/ Place(e) = Place(f) /\ e.op \in RepeatableOps
           /\ (f.ch > 1 /\ e.ch # f.ch) => ConceptStepDone(e, f.ch - 1)
           /\ (f.ch = 1 /\ e.ch # 1) => e.op = "deleteConcepts"
           /\ (f.op \in Step45Ops /\ e.op \notin Step45Ops)
                => ConceptStepDone(e, Len(chapters))

\* a finished run over two chapters that reached the whole-document summary
C8_Witness ==
  /\ pc = "done"
  /\ Len(chapters) = 2
  /\ Called("brief", 2)
  /\ Called("createConcept", 1)
  /\ Called("wholeSummary", 0)

\* ------------------------------------------------------------------ C9
\* C9: the chapter table never holds two rows with the same number, and when
\* a run ends READY the stored chapters are exactly one row per detected
\* chapter, all written by this run, and the stored concepts are exactly the
\* concepts this run created, each once.
C9_RerunReplacesRows ==
  /\ \A r1, r2 \in chapterRows : r1.number = r2.number => r1 = r2
  /\ (pc = "done" /\ outcome = "ready") =>
       /\ {r.number : r \in chapterRows} = {chapters[c] : c \in DOMAIN chapters}
       /\ \A r \in chapterRows : r.gen = run
       /\ \A k \in DOMAIN conceptRows : conceptRows[k].gen = run
       /\ Len(conceptRows) =
            Cardinality({k \in DOMAIN log :
                           log[k].op = "createConcept" /\ log[k].res = "ok"})
       /\ \A a, b \in DOMAIN conceptRows :
            a # b => conceptRows[a] # conceptRows[b]

\* a run that began on a material with chapters and concepts and ended READY
C9_Witness ==
  /\ pc = "done"
  /\ outcome = "ready"
  /\ hadRows
  /\ run = 2
  /\ conceptRows # <<>>

\* ----------------------------------------------------------------- C10
\* C10: the text passed to the whole-document summary call has at most 10000
\* characters (the whole text when it is shorter), and a run whose summary
\* call failed and whose unguarded store writes succeeded ends READY with
\* wholeSummary null.
C10_BoundedPrefixAndNullOnFailure ==
  /\ summaryInputLen # -1 =>
       /\ summaryInputLen <= 10000
       /\ summaryInputLen <= processed.textLen
       /\ processed.textLen <= 10000 => summaryInputLen = processed.textLen
  /\ Called("wholeSummary", 0) => summaryInputLen # -1
  /\ (pc = "done" /\ Failed("wholeSummary", 0) /\ ~UnguardedStoreFailed)
       => (outcome = "ready" /\ status = "READY" /\ wholeSummary = "null")

\* a reprocessing run over a long text whose summary call failed
C10_Witness ==
  /\ pc = "done"
  /\ outcome = "ready"
  /\ run = 2
  /\ processed.textLen > 10000
  /\ summaryInputLen = 10000
  /\ Failed("wholeSummary", 0)
  /\ wholeSummary = "null"

\* ======================================================== the search cache
\* lib/search-cache.ts: class SearchCache, a Map from a string key to
\* { results, timestamp }.  A JavaScript Map iterates in insertion order;
\* Map.set on a present key replaces the value and keeps the key's place.

\* ---------------------------------------------------------------- bounds
MaxSize  == 2     \* largest maxSize a cache is constructed with
MaxSets  == 3     \* set calls in one behaviour
MaxTicks == 2     \* clock advances in one behaviour

\* ------------------------------------------------------ program constants
PrefixLen  == 100   \* query.substring(0, 100)
TtlMinutes == 5     \* new SearchCache(100, 5)

\* this.ttl = ttlMinutes * 60 * 1000
Ttl == TtlMinutes * 60 * 1000

\* the clock advances by one TTL at a time: an entry is read at age 0,
\* at age exactly ttl and at age 2 * ttl
ClockStep == Ttl

\* ---------------------------------------------------------------- strings
\* a string is the sequence of its characters
Rep(c, n) == [k \in 1..n |-> c]

\* String.prototype.substring(0, n)
Substring(s, n) == SubSeq(s, 1, Min(Len(s), n))

\* the letters String.prototype.toLowerCase() and toUpperCase() map
LowerLetters == <<"a", "b", "c", "d", "e", "f", "g", "h", "i", "j", "k", "l", "m",
                  "n", "o", "p", "q", "r", "s", "t", "u", "v", "w", "x", "y", "z">>
UpperLetters == <<"A", "B", "C", "D", "E", "F", "G", "H", "I", "J", "K", "L", "M",
                  "N", "O", "P", "Q", "R", "S", "T", "U", "V", "W", "X", "Y", "Z">>

\* String.prototype.toLowerCase()
LowerChar(c) ==
  IF \E k \in DOMAIN UpperLetters : UpperLetters[k] = c
    THEN LowerLetters[CHOOSE k \in DOMAIN UpperLetters : UpperLetters[k] = c]
    ELSE c
ToLowerCase(s) == [k \in DOMAIN s |-> LowerChar(s[k])]

\* String.prototype.trim(): leading and trailing white space removed
Trim(s) ==
  LET inked == {k \in DOMAIN s : s[k] # " "}
  IN  IF inked = {} THEN <<>>
      ELSE LET first == CHOOSE k \in inked : \A l \in inked : k <= l
               last  == CHOOSE k \in inked : \A l \in inked : l <= k
           IN  SubSeq(s, first, last)

\* getCacheKey(query, materialId)
GetCacheKey_caseSensitive(query, materialId) ==
  materialId \o <<":">> \o Trim(Substring(query, PrefixLen))
GetCacheKey(query, materialId) ==
  materialId \o <<":">> \o Trim(ToLowerCase(Substring(query, PrefixLen)))

\* ----------------------------------------------------------------- inputs
LongQuery     == Rep("a", PrefixLen) \o <<"b">>
LongQueryCaps == Rep("A", PrefixLen) \o <<"B">>
LongQueryLead == <<" ">> \o Rep("a", PrefixLen) \o <<"b">>

\* the (query, materialId) arguments get and set are called with
CacheInputs ==
  << [query |-> <<"a">>,           materialId |-> <<"m">>],
     [query |-> <<" ", "A", " ">>, materialId |-> <<"m">>],
     [query |-> LongQuery,         materialId |-> <<"m">>],
     [query |-> LongQueryCaps,     materialId |-> <<"m">>],
     [query |-> LongQueryLead,     materialId |-> <<"m">>],
     [query |-> <<"a", ":", "b">>, materialId |-> <<"m">>],
     [query |-> <<"b">>,           materialId |-> <<"m", ":", "a">>] >>

\* the key of each input
Keys == [n \in DOMAIN CacheInputs |->
           GetCacheKey(CacheInputs[n].query, CacheInputs[n].materialId)]
KeyOf(n) == Keys[n]

\* results are numbered from 1; get returns Null for null
Null == 0

NoGet == [arg |-> 0, ret |-> Null, kind |-> "none"]

\* -------------------------------------------------------- Map operations
\* Map.prototype.has / get
Has(c, key) == \E k \in DOMAIN c : c[k].key = key
EntryOf(c, key) == c[CHOOSE k \in DOMAIN c : c[k].key = key]

\* Map.prototype.delete
MapDelete(c, key) == SelectSeq(c, LAMBDA e : e.key # key)

\* Map.prototype.set: a present key keeps its place, a new key goes last
MapSet(c, entry) ==
  IF Has(c, entry.key)
    THEN [k \in DOMAIN c |-> IF c[k].key = entry.key THEN entry ELSE c[k]]
    ELSE Append(c, entry)

\* this.cache.keys().next().value
OldestKey_newest(c) == c[Len(c)].key
OldestKey(c) == c[1].key

\* if (this.cache.size >= this.maxSize)
IsFull_over(size, max) == size > max
IsFull(size, max) == size >= max

\* if (Date.now() - entry.timestamp > this.ttl)
Expired_atTtl(age, ttl) == age >= ttl
Expired(age, ttl) == age > ttl

\* the hit path of get: return entry.results, the Map is not written
ReadHit_lru(c, key) == Append(MapDelete(c, key), EntryOf(c, key))
ReadHit(c, key) == c

\* the eviction of set, before the entry is written
Evict(c, max) ==
  IF IsFull(Len(c), max) /\ c # <<>> THEN MapDelete(c, OldestKey(c)) ELSE c

\* -------------------------------------------------------------- operations
\* constructor(maxSize, ttlMinutes)
NewSearchCache ==
  /\ maxSize = 0
  /\ \E n \in 1..MaxSize : maxSize' = n
  /\ cache' = <<>>
  /\ UNCHANGED <<now, sets, lastGet, emptiedAt, firstIn, notCache>>

\* get(query, materialId)
CacheGet ==
  /\ maxSize > 0
  /\ \E n \in DOMAIN CacheInputs :
       LET key == KeyOf(n) IN
       IF ~Has(cache, key)
         THEN /\ lastGet' = [arg |-> n, ret |-> Null, kind |-> "miss"]
              /\ UNCHANGED <<cache, emptiedAt, firstIn>>
         ELSE IF Expired(now - EntryOf(cache, key).timestamp, Ttl)
           THEN /\ cache' = MapDelete(cache, key)
                /\ emptiedAt' = -1
                /\ firstIn' = 0
                /\ lastGet' = [arg |-> n, ret |-> Null, kind |-> "expired"]
           ELSE /\ cache' = ReadHit(cache, key)
                /\ lastGet' = [arg |-> n, ret |-> EntryOf(cache, key).results,
                               kind |-> "hit"]
                /\ UNCHANGED <<emptiedAt, firstIn>>
  /\ UNCHANGED <<maxSize, now, sets, notCache>>

\* set(query, materialId, results): the results of the n-th set call are n;
\* by is the argument of the call and ins the number of the call that
\* put the key in its place in the Map
CacheSet ==
  /\ maxSize > 0
  /\ sets < MaxSets
  /\ sets' = sets + 1
  /\ \E n \in DOMAIN CacheInputs :
       LET kept == Evict(cache, maxSize) IN
       /\ cache' = MapSet(kept,
                          [key |-> KeyOf(n), results |-> sets + 1,
                           timestamp |-> now, by |-> n,
                           ins |-> IF Has(kept, KeyOf(n))
                                     THEN EntryOf(kept, KeyOf(n)).ins
                                     ELSE sets + 1])
       /\ emptiedAt' = IF Has(cache, KeyOf(n)) THEN -1 ELSE emptiedAt
       /\ firstIn' = IF Has(cache, KeyOf(n)) THEN 0
                     ELSE IF emptiedAt = sets THEN n ELSE firstIn
  /\ lastGet' = NoGet
  /\ UNCHANGED <<maxSize, now, notCache>>

\* clear()
CacheClear ==
  /\ maxSize > 0
  /\ cache # <<>>
  /\ cache' = <<>>
  /\ emptiedAt' = sets
  /\ firstIn' = 0
  /\ lastGet' = NoGet
  /\ UNCHANGED <<maxSize, now, sets, notCache>>

\* time passes over the stored entries
Tick ==
  /\ cache # <<>>
  /\ now < MaxTicks * ClockStep
  /\ now' = now + ClockStep
  /\ lastGet' = NoGet
  /\ UNCHANGED <<cache, maxSize, sets, emptiedAt, firstIn, notCache>>

CacheNext ==
  \/ NewSearchCache
  \/ CacheGet
  \/ CacheSet
  \/ CacheClear
  \/ Tick

CacheInit == Init /\ indexConfigured = TRUE

CacheSpec == CacheInit /\ [][CacheNext]_vars

\* ------------------------------------------------- reading the cache state
Entries(c) == {c[k] : k \in DOMAIN c}

\* the entry the set call of this step has written
Written == CHOOSE e \in Entries(cache') : e.results = sets'

\* a step in which set is called / in which get returns
IsSet == sets' = sets + 1
IsGet == lastGet'.kind # "none"

Age(e) == now - e.timestamp

\* a query with its letters lower-cased and its outer white space removed
Fold(q) == Trim(ToLowerCase(q))

\* the same folding applied to the first PrefixLen characters only
PrefixFold(q) == Trim(ToLowerCase(Substring(q, PrefixLen)))

\* both foldings of each input's query
Folded == [n \in DOMAIN CacheInputs |-> Fold(CacheInputs[n].query)]
PrefixFolded == [n \in DOMAIN CacheInputs |->
                   PrefixFold(CacheInputs[n].query)]

\* C11: after any sequence of get, set and clear on a cache constructed with
\* maxSize >= 1 the Map never holds more than maxSize entries.
C11_SizeNeverExceedsMaxSize ==
  maxSize >= 1 => Len(cache) <= maxSize

\* more set calls than the capacity have been made and the Map is full
C11_Witness ==
  /\ maxSize >= 1
  /\ sets > maxSize
  /\ Len(cache) = maxSize

\* C12: a set that inserts a new key into a Map holding maxSize entries
\* removes exactly one entry, the one whose key was inserted earliest; after
\* maxSize + 1 distinct keys have been inserted into an empty Map it holds
\* exactly the last maxSize of them and the first-inserted key is absent.
C12_EvictsEarliestInserted ==
  /\ [](emptiedAt >= 0 /\ sets - emptiedAt = maxSize + 1
          => /\ Len(cache) = maxSize
             /\ ~Has(cache, KeyOf(firstIn))
             /\ {e.ins : e \in Entries(cache)} = (emptiedAt + 2)..sets)
  /\ [][IsSet /\ Len(cache) = maxSize /\ ~Has(cache, Written.key)
          => /\ Len(cache') = maxSize
             /\ \E old \in Entries(cache) :
                  /\ \A e \in Entries(cache) : old.ins <= e.ins
                  /\ ~Has(cache', old.key)
                  /\ \A e \in Entries(cache) :
                       e.key # old.key => e \in Entries(cache')]_vars

\* maxSize + 1 distinct keys went into an empty Map of capacity >= 2
C12_Witness ==
  /\ maxSize >= 2
  /\ emptiedAt >= 0
  /\ sets - emptiedAt = maxSize + 1
  /\ ~Has(cache, KeyOf(firstIn))

\* C13: a get that hits an unexpired entry leaves the Map as it was (same
\* entries, same timestamps, same order), so the entries always stand in the
\* order their keys were inserted, whatever has been read.
C13_HitChangesNothing ==
  /\ [](\A k, l \in DOMAIN cache : k < l => cache[k].ins < cache[l].ins)
  /\ [][lastGet'.kind = "hit" => cache' = cache]_vars

\* the entry just read is the oldest of a full Map with other entries
C13_Witness ==
  /\ lastGet.kind = "hit"
  /\ maxSize >= 2
  /\ Len(cache) = maxSize
  /\ cache[1].key = KeyOf(lastGet.arg)

\* C14: a set whose key is already present removes no other entry, even
\* when the Map holds exactly maxSize entries.
C14_OverwriteEvictsNothing ==
  [][IsSet /\ Has(cache, Written.key)
       => \A e \in Entries(cache) :
            e.key # Written.key => Has(cache', e.key)]_vars

\* C15: get returns null for an entry older than the TTL and removes it; an
\* expired entry no get has touched stays stored; get on an entry whose age
\* is at most the TTL returns the stored results.
C15_LazyExpiry ==
  [][/\ IsGet /\ Has(cache, KeyOf(lastGet'.arg))
          => LET e == EntryOf(cache, KeyOf(lastGet'.arg)) IN
             /\ Age(e) > Ttl => /\ lastGet'.ret = Null
                                /\ ~Has(cache', e.key)
             /\ Age(e) <= Ttl => lastGet'.ret = e.results
     /\ IsGet => \A e \in Entries(cache) :
                   e.key # KeyOf(lastGet'.arg) => e \in Entries(cache')
     /\ now' # now => cache' = cache]_vars

\* a get has just removed an expired entry while another expired entry,
\* which no get has touched, is still stored
C15_Witness ==
  /\ lastGet.kind = "expired"
  /\ \E e \in Entries(cache) : Age(e) > Ttl

\* C16 as stated: get(q2) returns the unexpired results stored by set(q1)
\* for the same material whenever q1 and q2 are equal after case folding and
\* trimming, whatever their length.
C16_FoldedQueriesHit ==
  [][IsGet
       => \A e \in Entries(cache) :
            /\ CacheInputs[e.by].materialId
                 = CacheInputs[lastGet'.arg].materialId
            /\ Folded[e.by] = Folded[lastGet'.arg]
            /\ Age(e) <= Ttl
            => lastGet'.ret = e.results]_vars

\* C16 amended: get(q2) returns the unexpired results stored by set(q1) for
\* the same material whenever the first PrefixLen characters of q1 and of q2
\* are equal after lower-casing and trimming; for queries of at most
\* PrefixLen characters that is whenever they are equal after folding.
C16_PrefixFoldedQueriesHit ==
  [][IsGet
       => \A e \in Entries(cache) :
            LET q1 == CacheInputs[e.by].query
                q2 == CacheInputs[lastGet'.arg].query
            IN  /\ CacheInputs[e.by].materialId
                     = CacheInputs[lastGet'.arg].materialId
                /\ \/ PrefixFolded[e.by] = PrefixFolded[lastGet'.arg]
                   \/ /\ Len(q1) <= PrefixLen
                      /\ Len(q2) <= PrefixLen
                      /\ Folded[e.by] = Folded[lastGet'.arg]
                /\ Age(e) <= Ttl
                => lastGet'.ret = e.results]_vars

\* a long query has hit the entry stored under a different long query
C16_Witness ==
  /\ lastGet.kind = "hit"
  /\ Len(CacheInputs[lastGet.arg].query) > PrefixLen
  /\ \E e \in Entries(cache) :
       /\ e.results = lastGet.ret
       /\ e.by # lastGet.arg

\* C17: results stored by set for material m1 are never returned by get for
\* a different material m2, for any materialId strings and any queries.
C17_NoCrossMaterialHit ==
  [][lastGet'.kind = "hit"
       => \A e \in Entries(cache) :
            e.results = lastGet'.ret
            => CacheInputs[e.by].materialId
                 = CacheInputs[lastGet'.arg].materialId]_vars

\* ========================================================= executeWithRetry
\* lib/prisma.ts: executeWithRetry(operation, maxRetries = 2)

\* ---------------------------------------------------------------- bounds
MaxRetries == 4     \* largest maxRetries argument: the delay cap is reached

\* ------------------------------------------------------ program constants
BaseDelay == 1000   \* 1000 * Math.pow(2, attempt)
CapDelay  == 5000   \* Math.min(..., 5000)

RetryableCodes == {"P1001", "P1002", "P1008", "P1017"}

\* ------------------------------------------------------------------ values
\* a thrown value: an Error instance, a plain object or a string; id tells
\* the values of different attempts apart.  For a string, message holds its
\* own text.
NoError == [tag |-> "null", code |-> "undefined", message |-> <<>>, id |-> 0]

ThrownKinds ==
  { [tag |-> "Error",  code |-> "P1001",     message |-> <<"unreachable">>],
    [tag |-> "Error",  code |-> "undefined",
     message |-> <<"connect", "ECONNREFUSED">>],
    [tag |-> "Error",  code |-> "P2002",     message |-> <<"unique">>],
    [tag |-> "Error",  code |-> "undefined",
     message |-> <<"read", "ETIMEDOUT">>],
    [tag |-> "object", code |-> "P1008",     message |-> <<>>],
    [tag |-> "object", code |-> "undefined", message |-> <<"invalid">>],
    [tag |-> "string", code |-> "undefined", message |-> <<"ETIMEDOUT">>] }

Thrown(kind, n) ==
  [tag |-> kind.tag, code |-> kind.code, message |-> kind.message, id |-> n]

\* new Error('Unknown database error')
UnknownError ==
  [tag |-> "Error", code |-> "undefined",
   message |-> <<"Unknown", "database", "error">>, id |-> 0]

\* error instanceof Error
InstanceOfError(v) == v.tag = "Error"

\* (error as PrismaConnectionError)?.code: a string has no such property
CodeOf(v) == IF v.tag = "string" THEN "undefined" ELSE v.code

\* (error as PrismaConnectionError)?.message || ''
MessageOf(v) == IF v.tag = "string" THEN <<>> ELSE v.message

\* String.prototype.includes, on the words of a message
Includes(msg, word) == \E k \in DOMAIN msg : msg[k] = word

\* const retryable = ...
Retryable(v) ==
  \/ CodeOf(v) \in RetryableCodes
  \/ Includes(MessageOf(v), "ECONNREFUSED")
  \/ Includes(MessageOf(v), "ETIMEDOUT")

\* for (...; attempt <= maxRetries; ...)
LoopContinues(a, m) == a <= m

\* if (!retryable || attempt === maxRetries) break
Breaks_lastOnly(v, a, m) == a = m
Breaks(v, a, m) == ~Retryable(v) \/ a = m

\* const delay = Math.min(1000 * Math.pow(2, attempt), 5000)
Delay_uncapped(a) == BaseDelay * 2^a
Delay(a) == Min(BaseDelay * 2^a, CapDelay)

\* if (error instanceof Error) lastError = error
Remember(le, v) == IF InstanceOfError(v) THEN v ELSE le

\* throw lastError ?? new Error('Unknown database error')
Surfaced(le) == IF le # NoError THEN le ELSE UnknownError

\* return await operation(): the call is over once an attempt succeeds
AfterReturn_retry == "backoff"
AfterReturn == "done"

\* -------------------------------------------------------------------- steps
\* executeWithRetry(operation, maxRetries) is called
RetryCall ==
  /\ rPc = "idle"
  /\ \E m \in -1..MaxRetries : maxRetries' = m
  /\ rPc' = "loop"
  /\ attempt' = 0
  /\ lastError' = NoError
  /\ UNCHANGED <<calls, inFlight, lastThrown, rResult, rLog, notRetry>>

\* try { ... operation() }: the operation is invoked
AttemptStart ==
  /\ rPc = "loop"
  /\ LoopContinues(attempt, maxRetries)
  /\ rPc' = "await"
  /\ calls' = calls + 1
  /\ inFlight' = inFlight + 1
  /\ rLog' = Append(rLog, [ev |-> "start", n |-> attempt, ms |-> 0])
  /\ UNCHANGED <<maxRetries, attempt, lastError, lastThrown, rResult,
                 notRetry>>

\* the operation's promise is fulfilled
OpReturns ==
  /\ rPc = "await"
  /\ rPc' = AfterReturn
  /\ inFlight' = inFlight - 1
  /\ rResult' = [how |-> "returned",
                 value |-> [tag |-> "value", code |-> "undefined",
                            message |-> <<>>, id |-> calls]]
  /\ rLog' = Append(rLog, [ev |-> "ok", n |-> attempt, ms |-> 0])
  /\ UNCHANGED <<maxRetries, attempt, calls, lastError, lastThrown, notRetry>>

\* the operation's promise is rejected: the catch block
OpThrows ==
  /\ rPc = "await"
  /\ inFlight' = inFlight - 1
  /\ \E kind \in ThrownKinds :
       LET v == Thrown(kind, calls) IN
       /\ lastThrown' = v
       /\ lastError' = Remember(lastError, v)
       /\ rPc' = IF Breaks(v, attempt, maxRetries) THEN "exit" ELSE "backoff"
  /\ rLog' = Append(rLog, [ev |-> "fail", n |-> attempt, ms |-> 0])
  /\ UNCHANGED <<maxRetries, attempt, calls, rResult, notRetry>>

\* await new Promise(resolve => setTimeout(resolve, delay)); attempt++
BackoffElapsed ==
  /\ rPc = "backoff"
  /\ rPc' = "loop"
  /\ attempt' = attempt + 1
  /\ rLog' = Append(rLog, [ev |-> "wait", n |-> attempt,
                           ms |-> Delay(attempt)])
  /\ UNCHANGED <<maxRetries, calls, inFlight, lastError, lastThrown, rResult,
                 notRetry>>

\* the loop is left by break or by its condition: the final throw
ThrowLast ==
  /\ \/ rPc = "exit"
     \/ rPc = "loop" /\ ~LoopContinues(attempt, maxRetries)
  /\ rPc' = "done"
  /\ rResult' = [how |-> "thrown", value |-> Surfaced(lastError)]
  /\ UNCHANGED <<maxRetries, attempt, calls, inFlight, lastError, lastThrown,
                 rLog, notRetry>>

RetryNext ==
  \/ RetryCall
  \/ AttemptStart
  \/ OpReturns
  \/ OpThrows
  \/ BackoffElapsed
  \/ ThrowLast

RetryInit == Init /\ indexConfigured = TRUE

RetrySpec == RetryInit /\ [][RetryNext]_vars

\* C19: when every attempt fails, executeWithRetry throws exactly the value
\* the last attempt threw, whatever that value is.
C19_ThrowsLastThrownValue ==
  rPc = "done" /\ rResult.how = "thrown" /\ calls >= 1
    => rResult.value = lastThrown

\* C20: the operation is invoked at most maxRetries + 1 times and never twice
\* at once; an attempt after the first starts only after the previous one
\* has failed and its delay has elapsed; after the first success the
\* operation is not invoked again and that attempt's value is returned.
C20_SequentialBoundedAttempts ==
  /\ rPc # "idle" => calls <= maxRetries + 1
  /\ inFlight <= 1
  /\ \A k \in DOMAIN rLog :
       /\ rLog[k].ev = "start" /\ k > 1
            => /\ k > 2
               /\ rLog[k - 1].ev = "wait"
               /\ rLog[k - 2].ev = "fail"
       /\ rLog[k].ev = "ok" => k = Len(rLog)
  /\ rLog # <<>> /\ rLog[Len(rLog)].ev = "ok"
       => /\ rPc = "done"
          /\ rResult.how = "returned"
          /\ rResult.value.id = calls

\* the last permitted attempt has succeeded after every earlier one failed
C20_Witness ==
  /\ rPc = "done"
  /\ rResult.how = "returned"
  /\ maxRetries = MaxRetries
  /\ calls = maxRetries + 1

\* the classifier's conditions as the claim words them
Unrecognised(v) ==
  /\ CodeOf(v) \notin {"P1001", "P1002", "P1008", "P1017"}
  /\ ~Includes(MessageOf(v), "ECONNREFUSED")
  /\ ~Includes(MessageOf(v), "ETIMEDOUT")

\* C21: a failure the classifier does not recognise as retryable is surfaced
\* immediately: the next thing executeWithRetry does is throw, with no further
\* invocation of the operation and no backoff delay.
C21_FatalSurfacedImmediately ==
  [][/\ (rPc = "await" /\ rPc' \in {"exit", "backoff"}
           /\ Unrecognised(lastThrown'))
          => rPc' = "exit"
     /\ rPc = "exit"
          => /\ rPc' = "done"
             /\ rResult'.how = "thrown"
             /\ calls' = calls
             /\ rLog' = rLog]_vars

\* a fatal failure of the first attempt ended a call that had retries left
C21_Witness ==
  /\ rPc = "done"
  /\ rResult.how = "thrown"
  /\ maxRetries >= 1
  /\ calls = 1
  /\ Unrecognised(lastThrown)
  /\ Len(rLog) = 2

\* C22: the delay waited after failed attempt k is min(1000 * 2^k, 5000) ms;
\* delays never decrease, never exceed 5000 ms, and none is waited after the
\* final attempt.
C22_BackoffDelays ==
  /\ \A k \in DOMAIN rLog :
       rLog[k].ev = "wait"
         => /\ rLog[k].ms = Min(1000 * 2^(rLog[k].n), 5000)
            /\ rLog[k].ms <= 5000
            /\ rLog[k].n < maxRetries
            /\ k > 1 /\ rLog[k - 1] = [ev |-> "fail", n |-> rLog[k].n, ms |-> 0]
            /\ \A l \in 1..(k - 1) :
                 rLog[l].ev = "wait" => rLog[l].ms <= rLog[k].ms
  /\ rPc = "done" => rLog = <<>> \/ rLog[Len(rLog)].ev # "wait"

\* the capped delay has been waited, after the fourth failed attempt
C22_Witness ==
  \E k \in DOMAIN rLog :
    /\ rLog[k].ev = "wait"
    /\ rLog[k].n = 3
    /\ rLog[k].ms = 5000

\* ========================================================= the chat endpoint
\* POST of the chat route and searchRelevantChunks of lib/pinecone.  Neither
\* imports lib/search-cache: the cache variables are read by the claims only.

\* ---------------------------------------------------------------- bounds
MaxRequests == 2     \* requests served in one behaviour
MaxMatches  == 5     \* matches one index.query returns

\* ------------------------------------------------------ program constants
MaxQuestion == 1000  \* question.length > 1000
TopK        == 5     \* searchRelevantChunks(question, materialId, 5)

\* ----------------------------------------------------------------- inputs
TheMaterial == <<"m">>

\* a question that is a number, as in { question: 5 }
NotAString == <<"#5">>

\* what an awaited call of POST can reject with
ChatErrors ==
  { [tag |-> "object", status |-> 429, message |-> <<>>],
    [tag |-> "Error",  status |-> 0,   message |-> <<"Too Many Requests">>],
    [tag |-> "Error",  status |-> 0,   message |-> <<"db:5", "429">>],
    [tag |-> "Error",  status |-> 0,   message |-> <<"unexpected", "token">>],
    [tag |-> "string", status |-> 0,   message |-> <<>>] }

\* isRateLimitError(error)
IsRateLimitError(error) ==
  /\ error.tag # "string"
  /\ \/ error.status = 429
     \/ Includes(error.message, "429")
     \/ Includes(error.message, "Too Many Requests")

\* the status the catch of POST answers with
CatchCode(error) == IF IsRateLimitError(error) THEN 429 ELSE 500

\* conversationHistory of a body: left out, a list of messages, a number
\* (as in { conversationHistory: 5 }) or a list holding null
Histories == {"undefined", "messages", "number", "nullItem"}

\* conversationHistory?.map((msg) => ({ role: msg.role ..., content })) throws
\* a TypeError for a value without map and for an element that is null
FormatThrows(history) == history \in {"number", "nullItem"}

\* request bodies: a missing field is the empty string
ChatBody(materialId, question, history) ==
  [materialId |-> materialId, question |-> question,
   conversationHistory |-> history]
ChatRequests ==
  { ChatBody(TheMaterial, <<"a">>, "undefined"),
    ChatBody(TheMaterial, <<"a">>, "messages"),
    ChatBody(TheMaterial, <<"a">>, "number"),
    ChatBody(TheMaterial, <<"a">>, "nullItem"),
    ChatBody(TheMaterial, <<" ">>, "undefined"),
    ChatBody(TheMaterial, Rep("a", MaxQuestion + 1), "undefined"),
    ChatBody(TheMaterial, <<>>, "undefined"),
    ChatBody(<<"x">>, <<"a">>, "undefined"),
    ChatBody(<<>>, <<"a">>, "undefined"),
    ChatBody(TheMaterial, NotAString, "undefined") }

\* what index.query can answer: n matches in descending score order; match k
\* has id k, page k and score MaxMatches + 1 - k
Match(k) == [id |-> k, pageNumber |-> k, score |-> MaxMatches + 1 - k]
MatchLists == {[k \in 1..n |-> Match(k)] : n \in 0..Min(MaxMatches, TopK)}

\* results.matches.map(match => ({ text: textMap.get(match.id)?.text || '',
\*   pageNumber, score })): the text of row id is written id, '' is 0
Combine_foundOnly(ms, found) ==
  SelectSeq([k \in DOMAIN ms |-> [text |-> ms[k].id,
                                  pageNumber |-> ms[k].pageNumber,
                                  score |-> ms[k].score]],
            LAMBDA c : c.text \in found)
Combine(ms, found) ==
  [k \in DOMAIN ms |-> [text |-> IF ms[k].id \in found THEN ms[k].id ELSE 0,
                        pageNumber |-> ms[k].pageNumber,
                        score |-> ms[k].score]]

\* relevantChunks.map(chunk => `[Page ${chunk.pageNumber}] ${chunk.text}`)
Context(chunks) ==
  [k \in DOMAIN chunks |-> <<chunks[k].pageNumber, chunks[k].text>>]

\* relevantChunks.map(c => c.pageNumber)
RelevantPages(chunks) == [k \in DOMAIN chunks |-> chunks[k].pageNumber]

\* the validation of the body: 0 when it passes, else the response status;
\* question.trim() throws for a question that is not a string, which the
\* catch answers with 500
Validate(body) ==
  IF body.materialId = <<>> \/ body.question = <<>> THEN 400
  ELSE IF body.question = NotAString THEN 500
  ELSE IF Len(Trim(body.question)) = 0 THEN 400
  ELSE IF Len(body.question) > MaxQuestion THEN 400
  ELSE 0

\* the validation outcome of each request body
Validated == [body \in ChatRequests |-> Validate(body)]

\* prisma.material.findUnique({ where: { id: materialId } })
FindUnique(id, stored) ==
  IF id = TheMaterial /\ stored # "NONE" THEN stored ELSE "null"

\* if (material.processingStatus === 'PROCESSING')
Blocked_never(stored) == FALSE
Blocked(stored) == stored = "PROCESSING"

\* try { relevantChunks = await searchRelevantChunks(...) } catch { warn }:
\* a throw of the search leaves relevantChunks empty and goes on to the answer
SearchCatch_gives500 == "idle"
SearchCatch == "answer"

\* searchRelevantChunks: if (!index) return []
SearchEntry(configured) == IF configured THEN "embed" ELSE "answer"

Reply(code, chunks) ==
  [code |-> code, relevantPages |-> RelevantPages(chunks),
   context |-> Context(chunks)]

Did(op, ok) == [op |-> op, ok |-> ok]

pipelineButStatus == <<wholeSummary, stores, indexConfigured, document, run,
                       hadRows,
                       pc, phase, locals, outcome, log, failures>>
notChat == <<pipelineButStatus, cacheVars, retryVars, vectorVars,
  pureVars,
  splitVars,
  voiceVars,
  uploadVars>>
notVector == <<pipelineButStatus, cacheVars, retryVars, chatVars,
  pureVars,
  splitVars,
  voiceVars,
  uploadVars>>
notPure == <<pipelineButStatus, cacheVars, retryVars, chatVars,
  vectorVars,
  splitVars,
  voiceVars,
  uploadVars>>
notSplit == <<pipelineButStatus, cacheVars, retryVars, chatVars,
  pureVars,
  vectorVars,
  voiceVars,
  uploadVars>>
notVoice == <<pipelineButStatus, cacheVars, retryVars, chatVars,
  pureVars,
  splitVars,
  vectorVars,
  uploadVars>>
notUpload == <<pipelineButStatus, cacheVars, retryVars, chatVars,
  pureVars,
  splitVars,
  voiceVars,
  vectorVars>>

\* -------------------------------------------------------------------- steps
\* the material record is written by the upload route, the orchestrator or
\* the maintenance script
MaterialWritten ==
  /\ \E st \in {"PROCESSING", "READY", "ERROR"} : status' = st
  /\ status' # status
  /\ UNCHANGED <<chatVars, notChat>>

\* POST: DATABASE_URL check, await request.json(), whose rejection goes to
\* the catch, and the field validation
ChatPost ==
  /\ cPc = "idle"
  /\ requests < MaxRequests
  /\ requests' = requests + 1
  /\ chatLog' = <<>>
  /\ relevantChunks' = <<>>
  /\ matches' = <<>>
  /\ textRows' = {}
  /\ \E db \in BOOLEAN, parsed \in BOOLEAN, error \in ChatErrors,
        body \in ChatRequests :
       /\ req' = body
       /\ IF ~db
            THEN /\ resp' = Reply(503, <<>>)
                 /\ cPc' = "idle"
            ELSE IF ~parsed
              THEN /\ resp' = Reply(CatchCode(error), <<>>)
                   /\ cPc' = "idle"
            ELSE IF Validated[body] # 0
              THEN /\ resp' = Reply(Validated[body], <<>>)
                   /\ cPc' = "idle"
              ELSE /\ resp' = Reply(0, <<>>)
                   /\ cPc' = "findUnique"
  /\ UNCHANGED <<status, notChat>>

\* await prisma.material.findUnique, whose rejection goes to the catch, the
\* 404 and the PROCESSING check
ChatFindMaterial ==
  /\ cPc = "findUnique"
  /\ \E ok \in BOOLEAN, error \in ChatErrors :
       /\ chatLog' = Append(chatLog, Did("findUnique", ok))
       /\ IF ~ok
            THEN resp' = Reply(CatchCode(error), <<>>) /\ cPc' = "idle"
            ELSE IF FindUnique(req.materialId, status) = "null"
              THEN resp' = Reply(404, <<>>) /\ cPc' = "idle"
              ELSE IF Blocked(FindUnique(req.materialId, status))
                THEN resp' = Reply(400, <<>>) /\ cPc' = "idle"
                ELSE resp' = resp /\ cPc' = SearchEntry(indexConfigured)
  /\ UNCHANGED <<req, requests, relevantChunks, matches, textRows, status,
                 notChat>>

\* searchRelevantChunks: await generateLocalEmbedding(query); a throw is
\* caught by POST, which goes on with no chunks
ChatEmbed ==
  /\ cPc = "embed"
  /\ \E ok \in BOOLEAN :
       /\ chatLog' = Append(chatLog, Did("embed", ok))
       /\ cPc' = IF ok THEN "query" ELSE SearchCatch
  /\ UNCHANGED <<req, requests, relevantChunks, matches, textRows, resp,
                 status,
                 notChat>>

\* searchRelevantChunks: await index.query({ vector, topK, filter })
ChatQuery ==
  /\ cPc = "query"
  /\ \E ok \in BOOLEAN :
       /\ chatLog' = Append(chatLog, Did("query", ok))
       /\ IF ok THEN \E ms \in MatchLists : matches' = ms
               ELSE matches' = matches
       /\ cPc' = IF ok THEN "findMany" ELSE SearchCatch
  /\ UNCHANGED <<req, requests, relevantChunks, textRows, resp, status,
                 notChat>>

\* searchRelevantChunks: await prisma.textChunk.findMany and the combination
ChatFindMany ==
  /\ cPc = "findMany"
  /\ \E ok \in BOOLEAN :
       /\ chatLog' = Append(chatLog, Did("findMany", ok))
       /\ IF ok
            THEN \E found \in SUBSET {matches[k].id : k \in DOMAIN matches} :
                   /\ textRows' = found
                   /\ relevantChunks' = Combine(matches, found)
            ELSE /\ textRows' = textRows
                 /\ relevantChunks' = relevantChunks
       /\ cPc' = IF ok THEN "answer" ELSE SearchCatch
  /\ UNCHANGED <<req, requests, matches, resp, status, notChat>>

\* the TypeError of a conversationHistory that cannot be formatted
FormatError ==
  [tag |-> "Error", status |-> 0, message |-> <<"is", "not", "a", "function">>]

\* context and formattedHistory are built, which throws for a history that
\* cannot be formatted, before answerQuestion is called; then await
\* answerQuestion(question, context, formattedHistory, true) and the
\* response; a throw is answered 429 (rate limit) or 500
ChatAnswer ==
  /\ cPc = "answer"
  /\ IF FormatThrows(req.conversationHistory)
       THEN /\ chatLog' = chatLog
            /\ resp' = Reply(CatchCode(FormatError), <<>>)
       ELSE \E code \in {200} \cup {CatchCode(error) : error \in ChatErrors} :
              /\ chatLog' = Append(chatLog, Did("answer", code = 200))
              /\ resp' = Reply(code,
                               IF code = 200 THEN relevantChunks ELSE <<>>)
  /\ cPc' = "idle"
  /\ UNCHANGED <<req, requests, relevantChunks, matches, textRows, status,
                 notChat>>

ChatNext ==
  \/ MaterialWritten
  \/ ChatPost
  \/ ChatFindMaterial
  \/ ChatEmbed
  \/ ChatQuery
  \/ ChatFindMany
  \/ ChatAnswer

ChatSpec == Init /\ [][ChatNext]_vars

\* C18: the Search Cache is consulted before any embedding or vector query
\* (with an unexpired entry for (materialId, question) neither is performed)
\* and after a miss the caller stores the retrieved results in the cache.
C18_CacheConsultedBeforeRetrieval ==
  /\ \A k \in DOMAIN chatLog :
       chatLog[k].op \in {"embed", "query"}
         => \E l \in 1..(k - 1) : chatLog[l].op = "cacheGet"
  /\ (\E k \in DOMAIN chatLog :
        chatLog[k] = Did("findMany", TRUE))
       => Has(cache, GetCacheKey(req.question, req.materialId))

\* the search of the request being served has thrown or has found nothing
SearchThrew ==
  \E k \in DOMAIN chatLog :
    chatLog[k].op \in {"embed", "query", "findMany"} /\ ~chatLog[k].ok
SearchEmpty ==
  /\ ~SearchThrew
  /\ matches = <<>>
  /\ \/ \E k \in DOMAIN chatLog : chatLog[k] = Did("findMany", TRUE)
     \/ /\ ~indexConfigured
        /\ \E k \in DOMAIN chatLog : chatLog[k] = Did("findUnique", TRUE)
        /\ resp.code \notin {404, 400}
Answers == SelectSeq(chatLog, LAMBDA e : e.op = "answer")

\* C27: when the vector search finds nothing or throws, the request goes on:
\* relevantChunks is empty, answerQuestion is called exactly once, and its
\* answer is sent with status 200, an empty context and no relevantPages
\* (only a throw of answerQuestion itself is answered 429 or 500).  The
\* request is one whose conversationHistory can be formatted: one that
\* cannot is answered 500 whatever the search gave.
C27_EmptySearchStillAnswers ==
  (SearchThrew \/ SearchEmpty) =>
    /\ cPc \in {"answer", "idle"}
    /\ relevantChunks = <<>>
    /\ cPc = "answer" => Answers = <<>> /\ resp.code = 0
    /\ (cPc = "idle" /\ ~FormatThrows(req.conversationHistory)) =>
         /\ Len(Answers) = 1
         /\ chatLog[Len(chatLog)].op = "answer"
         /\ resp.relevantPages = <<>>
         /\ resp.context = <<>>
         /\ resp.code = 200 <=> Answers[1].ok
         /\ resp.code \in {200, 429, 500}

C27_Witness ==
  /\ cPc = "idle"
  /\ \E k \in DOMAIN chatLog : chatLog[k] = Did("query", FALSE)
  /\ Answers = <<Did("answer", TRUE)>>
  /\ resp = [code |-> 200, relevantPages |-> <<>>, context |-> <<>>]

\* C28: searchRelevantChunks returns at most topK results, one per match of
\* the store and in the store's descending-score order, each with the score
\* and page of its match and the text of the textChunk row with the match's
\* id ('' when there is no such row); the context of the answer and
\* relevantPages keep that order.
C28_OneResultPerMatch ==
  (\E k \in DOMAIN chatLog : chatLog[k] = Did("findMany", TRUE))
    => /\ Len(relevantChunks) = Len(matches)
       /\ Len(relevantChunks) <= TopK
       /\ \A k \in DOMAIN relevantChunks :
            /\ relevantChunks[k].score = matches[k].score
            /\ relevantChunks[k].pageNumber = matches[k].pageNumber
            /\ relevantChunks[k].text =
                 IF matches[k].id \in textRows THEN matches[k].id ELSE 0
            /\ \A l \in DOMAIN relevantChunks :
                 k < l => relevantChunks[k].score >= relevantChunks[l].score
       /\ (cPc = "idle" /\ resp.code = 200) =>
            /\ Len(resp.context) = Len(matches)
            /\ \A k \in DOMAIN matches :
                 /\ resp.context[k] = <<matches[k].pageNumber,
                                        relevantChunks[k].text>>
                 /\ resp.relevantPages[k] = matches[k].pageNumber

C28_Witness ==
  /\ cPc = "idle"
  /\ resp.code = 200
  /\ Len(matches) = TopK
  /\ textRows = {matches[1].id, matches[3].id}
  /\ Len(resp.context) = TopK
  /\ resp.context[2] = <<matches[2].pageNumber, 0>>

\* ====================================================== the vector store
\* lib/pinecone (upsertDocumentChunks, searchRelevantChunks,
\* deleteMaterialVectors), step 4 to the end of processDocumentAsync, the
\* DELETE endpoint of the material route and the four scripts that write the
\* index (vectorize-material, simple-vector-upload, upload-vectors-batch and
\* the one that also marks the material READY), for one material.  Steps 1 to
\* 3 of the run are one step here; they are the subject of Spec.

\* ------------------------------------------------------------------ bounds
MaxScriptChunks == 2    \* chunks.length of the script
MaxVFailures    == 1    \* operations of the run that may fail
MaxRunChunks    == 2    \* chunks.length of a run next to the scripts

\* ------------------------------------------------------ program constants
ScriptLimit == 50       \* Math.min(chunks.length, 50) of vectorize-material
SimpleLimit == 20       \* Math.min(chunks.length, 20) of simple-vector-upload
MainLimit == 30         \* Math.min(chunks.length, 30) of the READY script
ScriptTextMax == 500    \* chunks[i].substring(0, 500)
ScriptBatchSize == 5    \* const batchSize = 5 in uploadMaterial

\* chunks.length of the run: the step-4 splitter yields any number of
\* chunks.  VectorSpec has the short documents, next to the scripts;
\* LargeSpec has the document of three sub-batches, without the scripts
ChunkCounts == 0..MaxRunChunks
LargeCounts == {2 * BatchSize + 1}

\* ------------------------------------------------------------- the records
\* `${materialId}-chunk-${index}`
ChunkId_oneBased(materialId, index) == <<materialId, "chunk", index + 1>>
ChunkId(materialId, index) == <<materialId, "chunk", index>>

\* the text of the chunk with a sequence index, as each splitter cuts it
ChunkTextOf(index) == <<"t", index>>
SimpleChunkOf(index) == <<"w", index>>
SmallChunkOf(index) == <<"s", index>>

\* chunkData[index] of step 4
ChunkData(materialId, index) ==
  [id            |-> ChunkId(materialId, index),
   text          |-> ChunkTextOf(index),
   pageNumber    |-> index \div 2,
   chapterNumber |-> 1]

\* chunk.chapterNumber || 0
OrZero(n) == IF n = 0 THEN 0 ELSE n

\* the data of prisma.textChunk.create
TextChunkRow(materialId, chunk) ==
  [id            |-> chunk.id,
   materialId    |-> materialId,
   text          |-> chunk.text,
   pageNumber    |-> chunk.pageNumber,
   chapterNumber |-> OrZero(chunk.chapterNumber)]

\* one element of vectors in upsertDocumentChunks (values left out)
VectorOf(materialId, chunk) ==
  [id       |-> chunk.id,
   metadata |-> [materialId    |-> materialId,
                 pageNumber    |-> chunk.pageNumber,
                 chapterNumber |-> OrZero(chunk.chapterNumber)]]

\* the record the script upserts for chunks[index]
ScriptVector(materialId, index) ==
  [id       |-> ChunkId(materialId, index),
   metadata |-> [materialId    |-> materialId,
                 text          |-> Substring(SimpleChunkOf(index),
                                             ScriptTextMax),
                 pageNumber    |-> (index \div 3) + 1,
                 chapterNumber |-> 0]]

\* the record uploadMaterial pushes for textChunks[chunkIndex]
BatchVector(materialId, chunkIndex) ==
  [id       |-> ChunkId(materialId, chunkIndex),
   metadata |-> [materialId    |-> materialId,
                 text          |-> SmallChunkOf(chunkIndex),
                 pageNumber    |-> (chunkIndex \div 3) + 1,
                 chapterNumber |-> 0]]

\* index.upsert(records): a record replaces the one with its id
IndexUpsert(ix, records) ==
  LET ids == {r.id : r \in records}
  IN  {r \in ix : r.id \notin ids} \cup records

\* index.deleteMany({ filter: { materialId: { $eq: materialId } } })
IndexDeleteMany(ix, materialId) ==
  {r \in ix : r.metadata.materialId # materialId}

\* prisma.textChunk.deleteMany({ where: { materialId } })
TextChunkDeleteMany(rows, materialId) ==
  {r \in rows : r.materialId # materialId}

\* vectors.slice(i, i + batchSize): the sequence indexes of its elements
BatchEnd_whole(from, n) == n
BatchEnd(from, n) == Min(from + BatchSize, n)

Batch(from, n) == from .. (BatchEnd(from, n) - 1)

\* ------------------------------------------------------------ control flow
\* if (!index) return, as the first statement of upsertDocumentChunks
UpsertEntry_noGuard(configured) == "deleteTextChunks"
UpsertEntry(configured) ==
  IF configured THEN "deleteTextChunks" ELSE "returned"

\* where the upsert loop goes after one awaited index.upsert(batch)
AfterBatch(ok, from, n) ==
  IF ~ok THEN "threw"
  ELSE IF from + BatchSize < n THEN "upsert" ELSE "returned"

\* the run's position for a position of upsertDocumentChunks: the step-4
\* try/catch is followed by step 5 whether the call returned or threw
RunPc(at) == IF at \in {"returned", "threw"} THEN "wholeSummary" ELSE at

\* how the call has settled at a position
Settled(at, before) == IF at \in {"returned", "threw"} THEN at ELSE before

VDid(op, from, to, ok) == [op |-> op, from |-> from, to |-> to, ok |-> ok]

\* prisma.material.findUnique finds the record
Exists == status # "NONE"

\* the outcomes the environment may choose for an awaited operation of the
\* run, and for a prisma.material.update, which rejects without the record
Outcomes == {ok \in BOOLEAN : ~ok => vFailures < MaxVFailures}
UpdateOutcomes ==
  {ok \in BOOLEAN : /\ ok => Exists
                    /\ ~ok => (vFailures < MaxVFailures \/ ~Exists)}

\* an awaited operation of the run settles
VComplete(op, from, to, ok, at) ==
  /\ vLog' = Append(vLog, VDid(op, from, to, ok))
  /\ vFailures' = IF ok THEN vFailures ELSE vFailures + 1
  /\ vPc' = RunPc(at)
  /\ vUpsert' = Settled(at, vUpsert)

NoSearch == [embedded |-> FALSE, threw |-> FALSE, found |-> -1]

script == <<sPc, sN, sI, sIndexed, sPending>>

\* the last call of searchRelevantChunks and of deleteMaterialVectors is
\* kept until the next step only
Forget ==
  /\ vSearch' = NoSearch
  /\ vDelete' = "none"

\* -------------------------------------------------------------------- steps
\* the upload route creates the record and starts the run
VUpload ==
  /\ vPc = "idle"
  /\ status = "NONE"
  /\ vDeleteReq = "none"
  /\ status' = "PROCESSING"
  /\ vPc' = "steps1to3"
  /\ Forget
  /\ UNCHANGED <<vIndex, vChunks, vN, vI, vLog, vUpsert, vFailures, vDeleteReq,
                 script, notVector>>

\* steps 1 to 3: processDocument, the metadata update and the chapter loop;
\* a rejection outside the inner try blocks goes to the outer catch, and
\* step 4 is not started
VSteps1to3(counts) ==
  /\ vPc = "steps1to3"
  /\ \E ok \in Outcomes :
       /\ VComplete("steps1to3", 0, 0, ok,
                    IF ok THEN "step4" ELSE "markError")
       /\ \E n \in counts : vN' = IF ok THEN n ELSE vN
  /\ Forget
  /\ UNCHANGED <<status, vIndex, vChunks, vI, vDeleteReq, script, notVector>>

\* step 4: chunkText returns, chunkData is built and upsertDocumentChunks is
\* called; or chunkText throws and the catch of step 4 goes on to step 5
\* without a call of upsertDocumentChunks
VStep4 ==
  /\ vPc = "step4"
  /\ \E chunked \in BOOLEAN :
       IF chunked
         THEN /\ vPc' = RunPc(UpsertEntry(indexConfigured))
              /\ vUpsert' = Settled(UpsertEntry(indexConfigured), vUpsert)
         ELSE /\ vPc' = "wholeSummary"
              /\ UNCHANGED vUpsert
  /\ vI' = 0
  /\ Forget
  /\ UNCHANGED <<status, vIndex, vChunks, vN, vLog, vFailures, vDeleteReq,
                 script, notVector>>

\* await prisma.textChunk.deleteMany({ where: { materialId } })
VDeleteTextChunks ==
  /\ vPc = "deleteTextChunks"
  /\ \E ok \in Outcomes :
       /\ VComplete("deleteTextChunks", 0, 0, ok,
                    IF ~ok THEN "threw"
                    ELSE IF vN > 0 THEN "createTextChunk" ELSE "embedBatch")
       /\ vChunks' = IF ok THEN TextChunkDeleteMany(vChunks, TheMaterial)
                          ELSE vChunks
  /\ vI' = 0
  /\ Forget
  /\ UNCHANGED <<status, vIndex, vN, vDeleteReq, script, notVector>>

\* for (const chunk of chunks) await prisma.textChunk.create({ data }): one
\* awaited create, of chunks[vI], which writes its row or rejects
VCreateTextChunks ==
  /\ vPc = "createTextChunk"
  /\ \E ok \in Outcomes :
       /\ VComplete("createTextChunk", vI, vI, ok,
                    IF ~ok THEN "threw"
                    ELSE IF vI + 1 < vN THEN "createTextChunk"
                                        ELSE "embedBatch")
       /\ vChunks' = IF ok
                       THEN vChunks \cup
                              {TextChunkRow(TheMaterial,
                                            ChunkData(TheMaterial, vI))}
                       ELSE vChunks
       /\ vI' = IF ok THEN vI + 1 ELSE vI
  /\ Forget
  /\ UNCHANGED <<status, vIndex, vN, vDeleteReq, script, notVector>>

\* const embeddings = await generateLocalEmbeddingsBatch(texts)
VEmbedBatch ==
  /\ vPc = "embedBatch"
  /\ \E ok \in Outcomes :
       VComplete("embedBatch", 0, vN - 1, ok,
                 IF ~ok THEN "threw"
                 ELSE IF vN > 0 THEN "upsert" ELSE "returned")
  /\ vI' = 0
  /\ Forget
  /\ UNCHANGED <<status, vIndex, vChunks, vN, vDeleteReq, script, notVector>>

\* for (let i = 0; i < vectors.length; i += batchSize)
\*   await index.upsert(vectors.slice(i, i + batchSize))
VUpsertBatch ==
  /\ vPc = "upsert"
  /\ \E ok \in Outcomes :
       /\ VComplete("upsert", vI, BatchEnd(vI, vN) - 1, ok,
                    AfterBatch(ok, vI, vN))
       /\ vIndex' = IF ok
                      THEN IndexUpsert(vIndex,
                             {VectorOf(TheMaterial,
                                       ChunkData(TheMaterial, k)) :
                                k \in Batch(vI, vN)})
                      ELSE vIndex
       /\ vI' = IF ok THEN vI + BatchSize ELSE vI
  /\ Forget
  /\ UNCHANGED <<status, vChunks, vN, vDeleteReq, script, notVector>>

\* step 5: the summary of the whole document, in its own try/catch
VWholeSummary ==
  /\ vPc = "wholeSummary"
  /\ \E ok \in Outcomes : VComplete("wholeSummary", 0, 0, ok, "markReady")
  /\ Forget
  /\ UNCHANGED <<status, vIndex, vChunks, vN, vI, vDeleteReq, script,
                 notVector>>

\* step 6: prisma.material.update({ data: { processingStatus: 'READY' } })
VMarkReady ==
  /\ vPc = "markReady"
  /\ \E ok \in UpdateOutcomes :
       /\ VComplete("markReady", 0, 0, ok,
                    IF ok THEN "done" ELSE "markError")
       /\ status' = IF ok THEN "READY" ELSE status
  /\ Forget
  /\ UNCHANGED <<vIndex, vChunks, vN, vI, vDeleteReq, script, notVector>>

\* the outer catch: prisma.material.update to ERROR
VMarkError ==
  /\ vPc = "markError"
  /\ \E ok \in UpdateOutcomes :
       /\ VComplete("markError", 0, 0, ok, "done")
       /\ status' = IF ok THEN "ERROR" ELSE status
  /\ Forget
  /\ UNCHANGED <<vIndex, vChunks, vN, vI, vDeleteReq, script, notVector>>

\* one call of deleteMaterialVectors(materialId)
DeleteMaterialVectors ==
  /\ \E ok \in BOOLEAN :
       /\ vDelete' = IF ~indexConfigured \/ ok THEN "returned" ELSE "threw"
       /\ vIndex' = IF indexConfigured /\ ok
                      THEN IndexDeleteMany(vIndex, TheMaterial)
                      ELSE vIndex
  /\ vSearch' = NoSearch
  /\ UNCHANGED <<status, vChunks, vPc, vN, vI, vLog, vUpsert, vFailures,
                 vDeleteReq, script, notVector>>

\* one call of searchRelevantChunks(query, materialId, 5): the embedding,
\* the query or the findMany may reject; the store returns the topK nearest
\* records the filter lets through
SearchRelevantChunks ==
  /\ \E ok \in BOOLEAN :
       vSearch' =
         IF ~indexConfigured
           THEN [embedded |-> FALSE, threw |-> FALSE, found |-> 0]
           ELSE [embedded |-> TRUE, threw |-> ~ok,
                 found |-> IF ok THEN Min(TopK, Cardinality(vIndex))
                                 ELSE -1]
  /\ vDelete' = "none"
  /\ UNCHANGED <<status, vIndex, vChunks, vPc, vN, vI, vLog, vUpsert,
                 vFailures, vDeleteReq, script, notVector>>

\* DELETE /api/materials/[id] up to its await prisma.material.delete:
\* findUnique finds the record and the delete removes it (whether the
\* textChunk rows go with it is the schema's choice of onDelete)
MaterialDelete ==
  /\ vDeleteReq = "none"
  /\ Exists
  /\ status' = "NONE"
  /\ vDeleteReq' = "deleted"
  /\ \E cascade \in BOOLEAN :
       vChunks' = IF cascade THEN TextChunkDeleteMany(vChunks, TheMaterial)
                             ELSE vChunks
  /\ Forget
  /\ UNCHANGED <<vIndex, vPc, vN, vI, vLog, vUpsert, vFailures, script,
                 notVector>>

\* the rest of DELETE: await unlink(material.fileUrl), whose failure is
\* logged only, and the response { success: true }
MaterialDeleteAnswer ==
  /\ vDeleteReq = "deleted"
  /\ vDeleteReq' = "answered"
  /\ Forget
  /\ UNCHANGED <<status, vIndex, vChunks, vPc, vN, vI, vLog, vUpsert,
                 vFailures, script, notVector>>

\* where a script goes after its extraction: readFile or pdfParse rejecting
\* ends it in the catch of main
AfterExtraction(ok, next) == IF ok THEN next ELSE "done"

\* if (!index) return, before the loop of a script
LoopEntry(configured) == IF configured THEN "loop" ELSE "done"

\* scripts/vectorize-material.ts up to its loop: findUnique, extraction,
\* simpleChunk, if (!index) return, limit
ScriptStart ==
  /\ sPc = "idle"
  /\ Exists
  /\ \E n \in 1..MaxScriptChunks, ok \in BOOLEAN :
       /\ sN' = Min(n, ScriptLimit)
       /\ sPc' = AfterExtraction(ok, LoopEntry(indexConfigured))
  /\ sI' = 0
  /\ Forget
  /\ UNCHANGED <<status, vIndex, vChunks, vPc, vN, vI, vLog, vUpsert,
                 vFailures, vDeleteReq, sIndexed, sPending, notVector>>

\* scripts/simple-vector-upload.ts up to its loop: findFirst takes the
\* material when it is READY; extraction, simpleChunk, if (!index) return
SimpleStart ==
  /\ sPc = "idle"
  /\ status = "READY"
  /\ \E n \in 1..MaxScriptChunks, ok \in BOOLEAN :
       /\ sN' = Min(n, SimpleLimit)
       /\ sPc' = AfterExtraction(ok, LoopEntry(indexConfigured))
  /\ sI' = 0
  /\ Forget
  /\ UNCHANGED <<status, vIndex, vChunks, vPc, vN, vI, vLog, vUpsert,
                 vFailures, vDeleteReq, sIndexed, sPending, notVector>>

\* the maintenance script up to its update: findUnique finds the material,
\* readFile and pdfParse
ScriptMain ==
  /\ sPc = "idle"
  /\ Exists
  /\ \E n \in 1..MaxScriptChunks, ok \in BOOLEAN :
       /\ sN' = Min(n, MainLimit)
       /\ sPc' = AfterExtraction(ok, "update")
  /\ sI' = 0
  /\ Forget
  /\ UNCHANGED <<status, vIndex, vChunks, vPc, vN, vI, vLog, vUpsert,
                 vFailures, vDeleteReq, sIndexed, sPending, notVector>>

\* its await prisma.material.update({ data: { pageCount, processingStatus:
\* 'READY' } }), which rejects without the record; then simpleChunk,
\* if (!index) return, limit
ScriptMainUpdate ==
  /\ sPc = "update"
  /\ \E ok \in {b \in BOOLEAN : b => Exists} :
       /\ status' = IF ok THEN "READY" ELSE status
       /\ sPc' = IF ok THEN LoopEntry(indexConfigured) ELSE "done"
  /\ Forget
  /\ UNCHANGED <<vIndex, vChunks, vPc, vN, vI, vLog, vUpsert, vFailures,
                 vDeleteReq, sN, sI, sIndexed, sPending, notVector>>

\* one iteration of the loop of the three scripts: try { generateEmbedding;
\* index.upsert([...]) }
\* catch { "Skipped chunk" }
ScriptChunk ==
  /\ sPc = "loop"
  /\ \E ok \in BOOLEAN :
       /\ vIndex' = IF ok
                      THEN IndexUpsert(vIndex,
                                       {ScriptVector(TheMaterial, sI)})
                      ELSE vIndex
       /\ sIndexed' = IF ok THEN sIndexed \cup {sI} ELSE sIndexed
  /\ sI' = sI + 1
  /\ sPc' = IF sI + 1 < sN THEN "loop" ELSE "done"
  /\ Forget
  /\ UNCHANGED <<status, vChunks, vPc, vN, vI, vLog, vUpsert, vFailures,
                 vDeleteReq, sN, sPending, notVector>>

\* scripts/upload-vectors-batch.ts up to the loop of uploadMaterial: findMany
\* of main takes a READY material and ends the script when it rejects;
\* if (!index) return; processDocument, whose rejection ends uploadMaterial
\* in the catch of main; chunkText
BatchStart ==
  /\ sPc = "idle"
  /\ status = "READY"
  /\ \E n \in 1..MaxScriptChunks, found \in BOOLEAN, ok \in BOOLEAN :
       /\ sN' = n
       /\ sPc' = IF found /\ indexConfigured
                   THEN AfterExtraction(ok, "embed")
                   ELSE "done"
  /\ sI' = 0
  /\ Forget
  /\ UNCHANGED <<status, vIndex, vChunks, vPc, vN, vI, vLog, vUpsert,
                 vFailures, vDeleteReq, sIndexed, sPending, notVector>>

\* where uploadMaterial goes after the inner iteration of a chunk: the
\* next chunk of the batch, the upsert of the batch, or the next batch
AfterEmbed(chunkIndex, n, vectors) ==
  IF (chunkIndex + 1) % ScriptBatchSize # 0 /\ chunkIndex + 1 < n
    THEN "embed"
    ELSE IF vectors # {} THEN "upsertBatch"
         ELSE IF chunkIndex + 1 < n THEN "embed" ELSE "done"

\* the inner iteration: try { generateEmbedding(chunk); vectors.push(...) }
\* catch { "Skipped chunk" }
BatchEmbed ==
  /\ sPc = "embed"
  /\ \E ok \in BOOLEAN :
       /\ sPending' = IF ok THEN sPending \cup {sI} ELSE sPending
       /\ sPc' = AfterEmbed(sI, sN, sPending')
  /\ sI' = sI + 1
  /\ Forget
  /\ UNCHANGED <<status, vIndex, vChunks, vPc, vN, vI, vLog, vUpsert,
                 vFailures, vDeleteReq, sN, sIndexed, notVector>>

\* if (vectors.length > 0) await index.upsert(vectors); a rejection ends
\* uploadMaterial in the catch of main
BatchUpsert ==
  /\ sPc = "upsertBatch"
  /\ \E ok \in BOOLEAN :
       /\ vIndex' = IF ok
                      THEN IndexUpsert(vIndex,
                             {BatchVector(TheMaterial, k) : k \in sPending})
                      ELSE vIndex
       /\ sIndexed' = IF ok THEN sIndexed \cup sPending ELSE sIndexed
       /\ sPc' = IF ok /\ sI < sN THEN "embed" ELSE "done"
  /\ sPending' = {}
  /\ Forget
  /\ UNCHANGED <<status, vChunks, vPc, vN, vI, vLog, vUpsert, vFailures,
                 vDeleteReq, sN, sI, notVector>>

VectorNext ==
  \/ VUpload
  \/ VSteps1to3(ChunkCounts)
  \/ VStep4
  \/ VDeleteTextChunks
  \/ VCreateTextChunks
  \/ VEmbedBatch
  \/ VUpsertBatch
  \/ VWholeSummary
  \/ VMarkReady
  \/ VMarkError
  \/ DeleteMaterialVectors
  \/ SearchRelevantChunks
  \/ MaterialDelete
  \/ MaterialDeleteAnswer
  \/ ScriptStart
  \/ SimpleStart
  \/ ScriptMain
  \/ ScriptMainUpdate
  \/ ScriptChunk
  \/ BatchStart
  \/ BatchEmbed
  \/ BatchUpsert

VectorSpec == Init /\ [][VectorNext]_vars

\* the run of a document of three sub-batches with the calls of
\* deleteMaterialVectors and searchRelevantChunks, which read and write the
\* index the sub-batches go to
LargeNext ==
  \/ VUpload
  \/ VSteps1to3(LargeCounts)
  \/ VStep4
  \/ VDeleteTextChunks
  \/ VCreateTextChunks
  \/ VEmbedBatch
  \/ VUpsertBatch
  \/ VWholeSummary
  \/ VMarkReady
  \/ VMarkError
  \/ DeleteMaterialVectors
  \/ SearchRelevantChunks

LargeSpec == Init /\ [][LargeNext]_vars

\* ------------------------------------------------- claims on the vector store
Ids(records) == {r.id : r \in records}

\* the index.upsert calls of upsertDocumentChunks, in order
Sent == SelectSeq(vLog, LAMBDA e : e.op = "upsert")

\* sequence indexes of the chunks the run has put into the index
RunIndexed == UNION {Sent[k].from .. Sent[k].to :
                       k \in {l \in DOMAIN Sent : Sent[l].ok}}

\* the parts of an identifier
MaterialOfId(id) == id[1]
IndexOfId(id) == id[3]

\* C23: when a call of upsertDocumentChunks or of deleteMaterialVectors
\* returns, the identifiers of the material's vector records are the
\* identifiers of its textChunk rows.
C23_VectorsPairedWithRows ==
  [][(\/ vUpsert # "returned" /\ vUpsert' = "returned"
      \/ vDelete' = "returned")
       => Ids(vIndex') = Ids(vChunks')]_vars

\* C24: upsertDocumentChunks sends the vectors as consecutive sub-batches of
\* at most 100, in chunk order, which together are the whole list; when the
\* upsert of a sub-batch fails the earlier ones stay in the index, no later
\* one is sent and the call rejects.
C24_ConsecutiveSubBatches ==
  /\ [](/\ \A k \in DOMAIN Sent :
             /\ Sent[k].from <= Sent[k].to
             /\ Sent[k].to - Sent[k].from + 1 <= BatchSize
             /\ Sent[k].from = IF k = 1 THEN 0 ELSE Sent[k - 1].to + 1
             /\ k < Len(Sent) => Sent[k].ok
        /\ (Sent # <<>> /\ ~Sent[Len(Sent)].ok) => vUpsert = "threw"
        /\ (vUpsert = "returned" /\ indexConfigured)
             => RunIndexed = 0..(vN - 1))
  /\ [][(vPc = "upsert" /\ vLog' # vLog) =>
          LET e == vLog'[Len(vLog')]
          IN  IF e.ok
                THEN Ids(vIndex') = Ids(vIndex) \cup
                       {ChunkId(TheMaterial, k) : k \in e.from .. e.to}
                ELSE /\ vIndex' = vIndex
                     /\ vPc' # "upsert"
                     /\ vUpsert' = "threw"]_vars

C24_Witness ==
  /\ vUpsert = "threw"
  /\ Len(Sent) = 2
  /\ Sent[1] = VDid("upsert", 0, BatchSize - 1, TRUE)
  /\ Sent[2] = VDid("upsert", BatchSize, 2 * BatchSize - 1, FALSE)
  /\ Ids(vIndex) = {ChunkId(TheMaterial, k) : k \in 0..(BatchSize - 1)}

\* C25: when the DELETE endpoint has deleted the material, no vector record
\* naming it is left in the index.
C25_DeleteLeavesNoVectors ==
  [][(vDeleteReq # "answered" /\ vDeleteReq' = "answered")
       => \A r \in vIndex' : r.metadata.materialId # TheMaterial]_vars

\* the run ended in the outer catch before step 4
Steps1to3Failed ==
  \E k \in DOMAIN vLog : vLog[k] = VDid("steps1to3", 0, 0, FALSE)

\* C26: with no index configured, upsertDocumentChunks and
\* deleteMaterialVectors return without rejecting and leave both stores as
\* they are, searchRelevantChunks returns the empty list without calling the
\* embedding, and the run goes on to the READY update: the call of step 4
\* has returned as soon as the run has left step 4 (a run in which chunkText
\* threw has made no call), and when the run is done the record, as long as
\* it exists, is READY unless that update rejected.
C26_UnconfiguredIsNoOp ==
  ~indexConfigured =>
    /\ vIndex = {} /\ vChunks = {}
    /\ vUpsert # "threw" /\ vDelete # "threw"
    /\ vPc \in {"step4", "deleteTextChunks", "createTextChunk", "embedBatch",
                "upsert"}
         => vPc = "step4" /\ vUpsert = "none"
    /\ vSearch # NoSearch
         => vSearch = [embedded |-> FALSE, threw |-> FALSE, found |-> 0]
    /\ \A k \in DOMAIN vLog :
         vLog[k].op \in {"steps1to3", "wholeSummary", "markReady",
                         "markError"}
    /\ (vPc = "done" /\ Exists /\ ~Steps1to3Failed)
         => \/ status = "READY"
            \/ \E k \in DOMAIN vLog : vLog[k] = VDid("markReady", 0, 0, FALSE)

C26_Witness ==
  /\ ~indexConfigured
  /\ vUpsert = "returned"
  /\ vPc = "done"
  /\ status = "READY"
  /\ vN = MaxRunChunks
  /\ vSearch = [embedded |-> FALSE, threw |-> FALSE, found |-> 0]
  /\ sPc = "done"

\* C29 (as stated): the chunks a run or a script indexes have the
\* identifiers m-chunk-0 .. m-chunk-(N-1) with no gap and no repeat.
C29_IdsGapFree ==
  /\ RunIndexed = 0..(Cardinality(RunIndexed) - 1)
  /\ sIndexed = 0..(Cardinality(sIndexed) - 1)
  /\ \A r \in vIndex : /\ MaterialOfId(r.id) = TheMaterial
                       /\ IndexOfId(r.id) \in RunIndexed \cup sIndexed

\* C29 (amended): the chunk with sequence index k gets the identifier
\* m-chunk-k from the run and from the scripts alike, one record per
\* identifier; the run indexes a gap-free prefix of its chunks: all of them
\* when upsertDocumentChunks returns with an index configured, none without
\* an index; a script indexes any of its chunks.
C29_IdsBySequenceIndex ==
  /\ RunIndexed = 0..(Cardinality(RunIndexed) - 1)
  /\ Cardinality(RunIndexed) <= vN
  /\ vUpsert = "returned"
       => Cardinality(RunIndexed) = IF indexConfigured THEN vN ELSE 0
  /\ ~indexConfigured => RunIndexed = {} /\ sIndexed = {}
  /\ sIndexed \subseteq 0..(sN - 1)
  /\ LET indexed == RunIndexed \cup sIndexed
     IN  \A r \in vIndex :
           /\ MaterialOfId(r.id) = TheMaterial
           /\ IndexOfId(r.id) \in indexed
           /\ "text" \in DOMAIN r.metadata
                => r.metadata.text \in {SimpleChunkOf(IndexOfId(r.id)),
                                        SmallChunkOf(IndexOfId(r.id))}
  /\ Cardinality(Ids(vIndex)) = Cardinality(vIndex)
  /\ \A row \in vChunks :
       /\ MaterialOfId(row.id) = TheMaterial
       /\ row.text = ChunkTextOf(IndexOfId(row.id))
       /\ IndexOfId(row.id) \in 0..(vN - 1)

C29_Witness ==
  /\ vUpsert = "returned"
  /\ RunIndexed = 0..(MaxRunChunks - 1)
  /\ sPc = "done"
  /\ sIndexed = {1}
  /\ Cardinality(vIndex) = MaxRunChunks

\* C30: every vector record carries metadata with exactly materialId,
\* pageNumber and chapterNumber, and never the text of the chunk.
C30_MetadataWithoutText ==
  \A r \in vIndex :
    DOMAIN r.metadata = {"materialId", "pageNumber", "chapterNumber"}

\* C31: when the embedding of one chunk fails during the indexing of a
\* document, the vectors of all the other chunks are still upserted: once
\* upsertDocumentChunks has settled after a failed embedding, at most one of
\* its chunks is missing from the index.
C31_OtherChunksStillIndexed ==
  (/\ vUpsert # "none"
   /\ \E k \in DOMAIN vLog : vLog[k] = VDid("embedBatch", 0, vN - 1, FALSE))
    => Cardinality(RunIndexed) >= vN - 1

\* ===================================================== the pure functions
\* detectChapters (lib/file-processor) and normalizeConceptCategory (the
\* material route), each called on inputs from a bounded set.

\* ------------------------------------------------------------------ bounds
MaxLines == 3           \* lines of a text

\* ------------------------------------------------------------------ texts
\* a text is the sequence of its lines, each ended by a line feed; a line is
\* plain or holds one heading after `lead` other characters: pat 1 is
\* "Chapter <digits>: <title>" in any letter case, pat 3 "<digits>. <title>";
\* the title of pat 3 begins with a capital letter
Heading(pat, lead, digits, title) ==
  [pat |-> pat, lead |-> lead, digits |-> digits, title |-> title]
PlainLine == Heading(0, 3, <<>>, <<>>)

Lines ==
  { PlainLine,
    Heading(1, 0, <<1>>,    <<"A">>),
    Heading(1, 2, <<0, 1>>, <<"B", " ">>),
    Heading(1, 0, <<2>>,    <<"A", "B">>),
    Heading(3, 0, <<1>>,    <<"A", "b">>),
    Heading(3, 2, <<1>>,    <<"B", " ">>),
    Heading(3, 0, <<2>>,    <<"A", "b">>),
    Heading(3, 0, <<1>>,    <<"A">>) }

RECURSIVE TextsOf(_)
TextsOf(n) ==
  IF n = 0 THEN {<<>>}
  ELSE LET shorter == TextsOf(n - 1)
       IN  shorter \cup {Append(t, l) : t \in {u \in shorter : Len(u) = n - 1},
                                        l \in Lines}
Texts == TextsOf(MaxLines)

\* number of characters of a line without its line feed
LineLength(line) ==
  CASE line.pat = 0 -> line.lead
    [] line.pat = 1 -> line.lead + 8 + Len(line.digits) + 2 + Len(line.title)
    [] line.pat = 3 -> line.lead + Len(line.digits) + 2 + Len(line.title)

\* index of the first character of line k, and text.length
RECURSIVE LineStart(_, _)
LineStart(text, k) ==
  IF k = 1 THEN 0
  ELSE LineStart(text, k - 1) + LineLength(text[k - 1]) + 1
TextLength(text) ==
  IF text = <<>> THEN 0 ELSE LineStart(text, Len(text) + 1)

\* parseInt(match[1])
RECURSIVE ParseInt(_)
ParseInt(digits) ==
  IF digits = <<>> THEN 0
  ELSE 10 * ParseInt(SubSeq(digits, 1, Len(digits) - 1)) + digits[Len(digits)]

\* the patterns of chapterPatterns in order; the second is the first in
\* capitals, and both carry the flag i
ChapterPatterns == <<1, 1, 3>>

\* whether the pattern matches in the line: /(\d+)\.\s+([A-Z][^\n]+)/ needs a
\* capital letter and at least one more character after it
Matches(line, pattern) ==
  /\ line.pat = pattern
  /\ pattern = 3 => Len(line.title) >= 2

\* [...text.matchAll(pattern)]: index, match[1] and match[2] of each match,
\* in text order
MatchAll(text, pattern) ==
  LET at == {k \in DOMAIN text : Matches(text[k], pattern)}
      lineOf[n \in 0..Cardinality(at)] ==
        IF n = 0 THEN 0
        ELSE CHOOSE k \in at : /\ k > lineOf[n - 1]
                               /\ \A l \in at : l > lineOf[n - 1] => k <= l
  IN  [n \in 1..Cardinality(at) |->
         [index  |-> LineStart(text, lineOf[n]) + text[lineOf[n]].lead,
          digits |-> text[lineOf[n]].digits,
          title  |-> text[lineOf[n]].title]]

\* the matches forEach does not skip: seenNumbers has not got their number
Kept_all(ms) == DOMAIN ms
Kept(ms) ==
  {k \in DOMAIN ms :
     \A l \in 1..(k - 1) : ParseInt(ms[l].digits) # ParseInt(ms[k].digits)}

\* index < matches.length - 1 ? matches[index + 1].index : text.length
EndIndex_ownStart(ms, k, length) == ms[k].index
EndIndex(ms, k, length) ==
  IF k < Len(ms) THEN ms[k + 1].index ELSE length

\* the chapters pushed for the matches of one pattern
ChaptersOf(ms, length) ==
  LET kept == Kept(ms)
      nth[n \in 0..Cardinality(kept)] ==
        IF n = 0 THEN 0
        ELSE CHOOSE k \in kept : /\ k > nth[n - 1]
                                 /\ \A l \in kept : l > nth[n - 1] => k <= l
  IN  [n \in 1..Cardinality(kept) |->
         [number     |-> ParseInt(ms[nth[n]].digits),
          title      |-> Trim(ms[nth[n]].title),
          startIndex |-> ms[nth[n]].index,
          endIndex   |-> EndIndex(ms, nth[n], length)]]

\* title of the chapter pushed when no pattern matches
FullDocument == <<"F", "u", "l", "l", " ", "D", "o", "c", "u", "m", "e", "n", "t">>

\* the first pattern of chapterPatterns that has matches, 0 if none has
FirstPattern(text) ==
  IF \A p \in DOMAIN ChapterPatterns : MatchAll(text, ChapterPatterns[p]) = <<>>
    THEN 0
    ELSE ChapterPatterns[CHOOSE p \in DOMAIN ChapterPatterns :
           /\ MatchAll(text, ChapterPatterns[p]) # <<>>
           /\ \A q \in 1..(p - 1) : MatchAll(text, ChapterPatterns[q]) = <<>>]

\* detectChapters(text)
DetectChaptersOf(text) ==
  IF FirstPattern(text) = 0
    THEN <<[number |-> 1, title |-> FullDocument, startIndex |-> 0,
            endIndex |-> TextLength(text)]>>
    ELSE ChaptersOf(MatchAll(text, FirstPattern(text)), TextLength(text))

\* what detectChapters returns for each text
Detected == [text \in Texts |-> DetectChaptersOf(text)]

\* a behaviour is one call of one of the functions, which keep no state
NoCallYet == dcChapters = <<>> /\ ncEnum = {} /\ ~ctCalled

\* the call of detectChapters
DetectChaptersCall ==
  /\ NoCallYet
  /\ \E text \in Texts :
       /\ dcText' = text
       /\ dcChapters' = Detected[text]
  /\ UNCHANGED <<status, ncValue, ncEnum, ncResult, notPure>>

\* ----------------------------------------------- normalizeConceptCategory
\* String.prototype.toUpperCase()
UpperChar(c) ==
  IF \E k \in DOMAIN LowerLetters : LowerLetters[k] = c
    THEN UpperLetters[CHOOSE k \in DOMAIN LowerLetters : LowerLetters[k] = c]
    ELSE c
ToUpperCase(s) == [k \in DOMAIN s |-> UpperChar(s[k])]

\* the literal 'OTHER'
Other == <<"O", "T", "H", "E", "R">>

\* what Object.values(ConceptCategory) can be: the enumeration is generated
\* from the schema, and OTHER is one of its members
ConceptCategories ==
  { {Other},
    {Other, <<"T", "E", "R", "M">>},
    {Other, <<"T", "e", "r", "m">>} }

\* the arguments: null, undefined or a string
NullValue      == [kind |-> "null", chars |-> <<>>]
UndefinedValue == [kind |-> "undefined", chars |-> <<>>]
StringValue(s) == [kind |-> "string", chars |-> s]
CategoryValues ==
  {NullValue, UndefinedValue} \cup
  {StringValue(s) : s \in { <<>>, <<"x">>,
                            <<"o", "t", "h", "e", "r">>, Other,
                            <<"O", "t", "h", "e", "r">>,
                            <<"t", "e", "r", "m">>, <<"T", "E", "R", "M">>,
                            <<"T", "e", "r", "m">> }}

\* !value
Falsy(value) == value.kind # "string" \/ value.chars = <<>>

\* normalizeConceptCategory(value)
NormalizeConceptCategory_asGiven(value, members) ==
  IF Falsy(value) THEN Other
  ELSE IF value.chars \in members THEN value.chars ELSE Other
NormalizeConceptCategory(value, members) ==
  IF Falsy(value) THEN Other
  ELSE IF ToUpperCase(value.chars) \in members
         THEN ToUpperCase(value.chars)
         ELSE Other

\* the call of normalizeConceptCategory
NormalizeCall ==
  /\ NoCallYet
  /\ \E value \in CategoryValues, members \in ConceptCategories :
       /\ ncValue' = value
       /\ ncEnum' = members
       /\ ncResult' = NormalizeConceptCategory(value, members)
  /\ UNCHANGED <<status, dcText, dcChapters, notPure>>

\* --------------------------------------------------------------- chunkText
\* lib/pinecone chunkText hands the text to splitTextRecursive of
\* ./text-splitter and returns the text of every chunk.  The splitter is not
\* part of the source at hand: the chunks it returns for a call, or that it
\* throws, are an input of the call.
MaxTokens == 2          \* tokens of a text
MaxChunkSize == 2       \* largest chunkSize
MaxSplitChunks == 2     \* chunks the splitter returns

Tokens == {"a", "b", " "}

RECURSIVE TokenTexts(_)
TokenTexts(n) ==
  IF n = 0 THEN {<<>>}
  ELSE LET shorter == TokenTexts(n - 1)
       IN shorter \cup {Append(t, x) : t \in {u \in shorter : Len(u) = n - 1},
                                       x \in Tokens}

\* the chunks of a result of the splitter: objects with a text
SplitChunks == {[text |-> <<"a">>], [text |-> <<"b">>], [text |-> <<"a", "b">>]}

RECURSIVE ChunkLists(_)
ChunkLists(n) ==
  IF n = 0 THEN {<<>>}
  ELSE LET shorter == ChunkLists(n - 1)
       IN shorter \cup {Append(l, c) : l \in {u \in shorter : Len(u) = n - 1},
                                       c \in SplitChunks}

\* what a call of splitTextRecursive can do: return a list of chunks or throw
SplitOutcomes ==
  {[ok |-> TRUE, chunks |-> l] : l \in ChunkLists(MaxSplitChunks)}
    \cup {[ok |-> FALSE, chunks |-> <<>>]}

\* chunks.map(chunk => chunk.text); an error of the splitter is thrown on
ChunkText(split) ==
  [ok |-> split.ok,
   chunks |-> [k \in DOMAIN split.chunks |-> split.chunks[k].text]]

\* the call of chunkText
ChunkTextCall ==
  /\ NoCallYet
  /\ \E text \in TokenTexts(MaxTokens), chunkSize \in 1..MaxChunkSize,
        overlap \in 0..MaxChunkSize, split \in SplitOutcomes :
       /\ ctText' = text
       /\ ctSize' = chunkSize
       /\ ctOverlap' = overlap
       /\ ctResult' = ChunkText(split)
  /\ ctCalled' = TRUE
  /\ UNCHANGED <<status, notSplit>>

PureNext ==
  \/ DetectChaptersCall
  \/ NormalizeCall
  \/ ChunkTextCall

PureInit == Init /\ indexConfigured = TRUE

PureSpec == PureInit /\ [][PureNext]_vars

\* the matches detectChapters works on
UsedMatches == MatchAll(dcText, FirstPattern(dcText))

\* C32: the chapters detectChapters returns have pairwise distinct numbers,
\* and each is the first match of its number in text order: its trimmed
\* title and its index.
C32_FirstOccurrenceKept ==
  dcChapters # <<>> =>
    /\ \A a, b \in DOMAIN dcChapters :
         a # b => dcChapters[a].number # dcChapters[b].number
    /\ FirstPattern(dcText) # 0 =>
         /\ \A k \in DOMAIN UsedMatches :
              \E a \in DOMAIN dcChapters :
                dcChapters[a].number = ParseInt(UsedMatches[k].digits)
         /\ \A a \in DOMAIN dcChapters :
              LET same == {k \in DOMAIN UsedMatches :
                             ParseInt(UsedMatches[k].digits)
                               = dcChapters[a].number}
              IN  /\ same # {}
                  /\ LET first == CHOOSE k \in same : \A l \in same : k <= l
                     IN  /\ dcChapters[a].startIndex = UsedMatches[first].index
                         /\ dcChapters[a].title
                              = Trim(UsedMatches[first].title)

C32_Witness ==
  /\ Len(dcChapters) = 2
  /\ Len(UsedMatches) = 3
  /\ ParseInt(UsedMatches[1].digits) = ParseInt(UsedMatches[3].digits)
  /\ UsedMatches[1].digits # UsedMatches[3].digits
  /\ dcChapters[1].startIndex = UsedMatches[1].index

\* C33: detectChapters never returns the empty list; with no match it
\* returns the one chapter 1 from 0 to text.length, and otherwise every
\* chapter has 0 <= startIndex < endIndex <= text.length and the spans
\* ascend without overlap.
C33_SpansCoverInOrder ==
  /\ [](dcChapters # <<>> =>
          IF FirstPattern(dcText) = 0
            THEN dcChapters = <<[number |-> 1, title |-> FullDocument,
                                 startIndex |-> 0,
                                 endIndex |-> TextLength(dcText)]>>
            ELSE /\ \A a \in DOMAIN dcChapters :
                      /\ 0 <= dcChapters[a].startIndex
                      /\ dcChapters[a].startIndex < dcChapters[a].endIndex
                      /\ dcChapters[a].endIndex <= TextLength(dcText)
                 /\ \A a \in 1..(Len(dcChapters) - 1) :
                      dcChapters[a].endIndex <= dcChapters[a + 1].startIndex)
  /\ [][(dcText' # dcText \/ dcChapters' # dcChapters)
          => dcChapters' # <<>>]_vars

C33_Witness ==
  /\ Len(dcText) = MaxLines
  /\ Len(dcChapters) = 2
  /\ dcChapters[1].startIndex > 0
  /\ dcChapters[1].endIndex < dcChapters[2].startIndex
  /\ dcChapters[2].endIndex = TextLength(dcText)

\* C34: normalizeConceptCategory returns a member of the enumeration: the
\* upper-cased input when that is a member, OTHER for every other value
\* (null, undefined and the empty string too), and its result is a fixed
\* point.
C34_ClosedCategory ==
  ncEnum # {} =>
    /\ ncResult \in ncEnum
    /\ ncResult = IF ncValue.kind = "string" /\ ncValue.chars # <<>>
                     /\ ToUpperCase(ncValue.chars) \in ncEnum
                    THEN ToUpperCase(ncValue.chars)
                    ELSE Other
    /\ NormalizeConceptCategory(StringValue(ncResult), ncEnum) = ncResult

C34_Witness ==
  /\ ncValue = StringValue(<<"t", "e", "r", "m">>)
  /\ ncEnum = {Other, <<"T", "E", "R", "M">>}
  /\ ncResult = <<"T", "E", "R", "M">>


\* C36: every run of processDocumentAsync that has finished, with its promise
\* fulfilled or rejected, has left the material READY or ERROR
C36_RunEndsReadyOrError ==
  (pc = "done" /\ outcome # "none") => status \in {"READY", "ERROR"}


\* the steps of the vector search and of the answer synthesis
SearchOrAnswer == {"embed", "query", "findMany", "answer"}

\* the material check of the request in flight has returned
Checked == chatLog' = Append(chatLog, Did("findUnique", TRUE))

\* C37: when the chat endpoint has read the material, a PROCESSING material
\* is answered 400 and a missing one 404, both without any step of the
\* search or the answer; a READY or ERROR material goes on to the search
C37_NoSearchWhileProcessing ==
  /\ [][(cPc = "findUnique" /\ Checked) =>
          /\ (req.materialId = TheMaterial /\ status = "PROCESSING") =>
                (resp'.code = 400 /\ cPc' = "idle")
          /\ (req.materialId = TheMaterial /\ status \in {"READY", "ERROR"}) =>
                (resp' = resp /\ cPc' = SearchEntry(indexConfigured))
          /\ (req.materialId # TheMaterial \/ status = "NONE") =>
                (resp'.code = 404 /\ cPc' = "idle")]_vars
  /\ [][cPc' \in SearchOrAnswer =>
          \/ cPc \in SearchOrAnswer
          \/ /\ cPc = "findUnique"
             /\ Checked
             /\ req.materialId = TheMaterial
             /\ status \in {"READY", "ERROR"}]_vars
  /\ []((cPc = "idle" /\ resp.code \in {400, 404}) =>
          \A k \in DOMAIN chatLog : chatLog[k].op \notin SearchOrAnswer)

C37_Witness ==
  /\ cPc = "idle"
  /\ requests = MaxRequests
  /\ status = "PROCESSING"
  /\ req.materialId = TheMaterial
  /\ chatLog = <<Did("findUnique", TRUE)>>
  /\ resp.code = 400


\* the place of a present key in the order of the Map
PlaceOf(c, key) == CHOOSE k \in DOMAIN c : c[k].key = key

\* C39: a set on a present key keeps the key's place in the eviction order:
\* no entry that stood behind it in the Map stands before it afterwards
C39_OverwriteKeepsPlace ==
  [][sets' = sets + 1 =>
       \A at \in DOMAIN cache' :
         (cache'[at].results = sets' /\ Has(cache, cache'[at].key)) =>
           \A before \in 1..(at - 1) :
             PlaceOf(cache, cache'[before].key)
               < PlaceOf(cache, cache'[at].key)]_vars


\* ================================================ useGoogleVoiceAssistant
\* speak() and stopSpeaking() of the voice hook.  A speak call runs up to its
\* first await in one step; the TTS request and audio.play() return in later
\* steps, interleaved with other calls and with the events of the audio.
Speaks == 1..MaxSpeaks
SpokenTexts == {"t1", "t2"}

\* HTMLMediaElement.pause(): playback that started or is starting stops
Pause(audio) == IF audio \in {"starting", "playing"} THEN "paused" ELSE audio

\* audioRef.current.pause() when there is a current audio
PauseCurrent(states, current) ==
  IF current = 0 THEN states
  ELSE [states EXCEPT ![current] = Pause(@)]

\* abortControllerRef.current.abort() when there is a controller
AbortCurrent(done, controller) ==
  IF controller = 0 THEN done ELSE done \cup {controller}

\* const audio = new Audio(audioUrl); audioRef.current = audio; ...;
\* await audio.play()
StartAudio(sp, states) ==
  /\ audioUrlRef' = sp
  /\ audioRef' = sp
  /\ isGeneratingRef' = FALSE
  /\ audioState' = [states EXCEPT ![sp] = "starting"]
  /\ spPc' = [spPc EXCEPT ![sp] = "play"]

\* catch (error) { setIsSpeaking(false); isGeneratingRef.current = false }
SpeakCatch(sp) ==
  /\ isSpeaking' = FALSE
  /\ isGeneratingRef' = FALSE
  /\ spPc' = [spPc EXCEPT ![sp] = "done"]

\* speak(text) up to its first await: the current audio is paused, the
\* request in flight aborted, isSpeaking set; a fresh cache entry is played
\* at once, else the TTS request is sent
SpeakStart ==
  \E sp \in Speaks, text \in SpokenTexts, fresh \in BOOLEAN :
    /\ spPc[sp] = "idle"
    /\ sp > 1 => spPc[sp - 1] # "idle"
    /\ aborted' = AbortCurrent(aborted, abortControllerRef)
    /\ isSpeaking' = TRUE
    /\ abortControllerRef' = sp
    /\ spText' = [spText EXCEPT ![sp] = text]
    /\ IF text \in audioCacheRef /\ fresh
         THEN StartAudio(sp, PauseCurrent(audioState, audioRef))
         ELSE /\ audioState' = PauseCurrent(audioState, audioRef)
              /\ audioRef' = 0
              /\ isGeneratingRef' = TRUE
              /\ spPc' = [spPc EXCEPT ![sp] = "fetch"]
              /\ UNCHANGED audioUrlRef
    /\ UNCHANGED <<audioCacheRef, status, notVoice>>

\* await fetch('/api/tts', { signal }) and response.json() return: an aborted
\* request rejects with an AbortError, another one succeeds or fails
FetchReturn ==
  \E sp \in Speaks, ok \in BOOLEAN :
    /\ spPc[sp] = "fetch"
    /\ IF sp \notin aborted /\ ok
         THEN /\ audioCacheRef' = audioCacheRef \cup {spText[sp]}
              /\ StartAudio(sp, audioState)
              /\ UNCHANGED isSpeaking
         ELSE /\ SpeakCatch(sp)
              /\ UNCHANGED <<audioCacheRef, audioRef, audioUrlRef,
                             audioState>>
    /\ UNCHANGED <<aborted, abortControllerRef, spText, status, notVoice>>

\* await audio.play() returns: playback has started, or the promise is
\* rejected (the audio was paused meanwhile, or playback is not allowed)
PlayReturn ==
  \E sp \in Speaks, ok \in BOOLEAN :
    /\ spPc[sp] = "play"
    /\ IF audioState[sp] = "starting" /\ ok
         THEN /\ audioState' = [audioState EXCEPT ![sp] = "playing"]
              /\ spPc' = [spPc EXCEPT ![sp] = "done"]
              /\ UNCHANGED <<isSpeaking, isGeneratingRef>>
         ELSE /\ SpeakCatch(sp)
              /\ audioState' = [audioState EXCEPT ![sp] =
                                  IF @ = "starting" THEN "error" ELSE @]
    /\ UNCHANGED <<audioRef, audioUrlRef, aborted, abortControllerRef,
                   audioCacheRef, spText, status, notVoice>>

\* audio.onended
AudioEnded ==
  \E sp \in Speaks :
    /\ audioState[sp] = "playing"
    /\ audioState' = [audioState EXCEPT ![sp] = "ended"]
    /\ isSpeaking' = FALSE
    /\ isGeneratingRef' = FALSE
    /\ audioUrlRef' = 0
    /\ audioRef' = 0
    /\ UNCHANGED <<aborted, abortControllerRef, audioCacheRef, spPc, spText,
                   status, notVoice>>

\* audio.onerror: the audio fails while it loads or plays, also after it was
\* paused; the handler clears audioUrlRef whichever audio it belongs to
AudioError ==
  \E sp \in Speaks :
    /\ audioState[sp] \in {"starting", "playing", "paused"}
    /\ audioState' = [audioState EXCEPT ![sp] = "error"]
    /\ isSpeaking' = FALSE
    /\ isGeneratingRef' = FALSE
    /\ audioUrlRef' = 0
    /\ UNCHANGED <<audioRef, aborted, abortControllerRef, audioCacheRef, spPc,
                   spText, status, notVoice>>

\* stopSpeaking()
StopSpeaking ==
  /\ \E sp \in Speaks : spPc[sp] # "idle"
  /\ aborted' = AbortCurrent(aborted, abortControllerRef)
  /\ abortControllerRef' = 0
  /\ audioState' = PauseCurrent(audioState, audioRef)
  /\ audioRef' = 0
  /\ audioUrlRef' = 0
  /\ isSpeaking' = FALSE
  /\ isGeneratingRef' = FALSE
  /\ UNCHANGED <<audioCacheRef, spPc, spText, status, notVoice>>

\* the cleanup the effect returns, run when the component renders with
\* another onTranscript or onError and when it unmounts: the current audio is
\* paused and audioRef and audioUrlRef are cleared; isSpeaking, the abort
\* controller and the speak calls in flight are left as they are
EffectCleanup ==
  /\ audioState' = PauseCurrent(audioState, audioRef)
  /\ audioRef' = 0
  /\ audioUrlRef' = 0
  /\ UNCHANGED <<isSpeaking, isGeneratingRef, aborted, abortControllerRef,
                 audioCacheRef, spPc, spText, status, notVoice>>

VoiceNext ==
  \/ SpeakStart
  \/ FetchReturn
  \/ PlayReturn
  \/ AudioEnded
  \/ AudioError
  \/ StopSpeaking
  \/ EffectCleanup

VoiceInit == Init /\ indexConfigured = TRUE

VoiceSpec == VoiceInit /\ [][VoiceNext]_vars

\* C38: while the audio a speak call started is the current audio and plays,
\* isSpeaking is true
C38_SpeakingWhilePlaying ==
  \A sp \in Speaks :
    (audioRef = sp /\ audioState[sp] = "playing") => isSpeaking


\* ============================================== POST /api/materials/upload
\* The upload route for several requests of the one user ('demo-user-id')
\* that are handled concurrently, the DELETE endpoint and the status update
\* of the run an upload starts.  The awaits of an upload that read or write
\* the stored materials are steps of their own; the awaits before the
\* duplicate check touch the request and the disk only and are one step.
UploadFiles ==
  { [name |-> "a", size |-> 1, defect |-> "none"],
    [name |-> "b", size |-> 1, defect |-> "none"],
    [name |-> "a", size |-> 2, defect |-> "none"] }

\* formData.get('file') of a form without a file
NoFile == [name |-> "none", size |-> 0, defect |-> "none"]

\* files the validation turns away: empty, a name of more than 255
\* characters, a name with a character of /[<>:"|?*\x00-\x1F]/, a type and
\* extension outside the allowed ones, more than 200 MB
RejectedFiles ==
  { [name |-> "a", size |-> 0, defect |-> "none"],
    [name |-> "a", size |-> 1, defect |-> "longName"],
    [name |-> "a", size |-> 1, defect |-> "invalidChars"],
    [name |-> "a", size |-> 1, defect |-> "type"],
    [name |-> "a", size |-> 1, defect |-> "tooLarge"] }

\* the validation of the file: 0 when it passes, else the response status
FileCheck(file) ==
  IF file = NoFile THEN 400
  ELSE IF file.size = 0 THEN 400
  ELSE IF file.defect \in {"longName", "invalidChars", "type"} THEN 400
  ELSE IF file.defect = "tooLarge" THEN 413
  ELSE 0

\* error.code of what an await of the route rejects with
UploadErrors == {"ENOSPC", "EACCES", "other"}

\* the status the outer catch of POST answers with
UploadCatch(code) == IF code = "ENOSPC" THEN 507 ELSE 500

\* the disk-space block: statfs reports enough space, too little, or mkdir
\* or statfs rejects, which is logged only
DiskChecks == {"enough", "insufficient", "threw"}

NoResponse == [code |-> 0, id |-> 0, duplicate |-> FALSE]

\* the status POST answers with before the duplicate check (0: none):
\* DATABASE_URL, await request.formData(), the validation, the disk-space
\* block and await file.arrayBuffer()
EarlyResponse(db, formOk, file, disk, bytesOk, code) ==
  IF ~db THEN 503
  ELSE IF ~formOk THEN UploadCatch(code)
  ELSE IF FileCheck(file) # 0 THEN FileCheck(file)
  ELSE IF disk = "insufficient" THEN 507
  ELSE IF ~bytesOk THEN UploadCatch(code)
  ELSE 0

\* prisma.material.findFirst({ where: { userId, fileSize: file.size } }): the
\* stored materials of that size, of which the query returns any one
SameSize(stored, file) ==
  {k \in DOMAIN stored : stored[k].fileSize = file.size}

\* if (existingMaterial && existingMaterial.fileName === file.name)
IsDuplicate(existing, file) == existing.fileName = file.name

\* what POST can have done when it reaches the duplicate check or answers
\* before it, over every request and every outcome of its awaits: the status
\* it answers with and the file it goes on with
EarlyOutcomes ==
  { [code |-> EarlyResponse(db, formOk, file, disk, bytesOk, code),
     file |-> IF EarlyResponse(db, formOk, file, disk, bytesOk, code) = 0
                THEN file ELSE NoFile] :
      <<db, formOk, file, disk, bytesOk, code>> \in
        BOOLEAN \X BOOLEAN \X (UploadFiles \cup RejectedFiles \cup {NoFile})
          \X DiskChecks \X BOOLEAN \X UploadErrors }

\* POST up to the duplicate check: the request is answered 503, 400, 413,
\* 507 or 500, or goes on to the check
UploadPost ==
  \E u \in Uploads, early \in EarlyOutcomes :
    /\ upPc[u] = "idle"
    /\ u > 1 => upPc[u - 1] # "idle"
    /\ upFile' = [upFile EXCEPT ![u] = early.file]
    /\ upPc' = [upPc EXCEPT ![u] = IF early.code = 0 THEN "check" ELSE "done"]
    /\ upResp' = IF early.code = 0 THEN upResp
                 ELSE [upResp EXCEPT ![u] =
                         [NoResponse EXCEPT !.code = early.code]]
    /\ UNCHANGED <<materials, upCheck, upRuns, deleteVars, status, notUpload>>

\* the duplicate check: findFirst throws (the upload goes on), finds no
\* material of that size, or returns one of them
DuplicateCheck ==
  \E u \in Uploads, ok \in BOOLEAN :
    /\ upPc[u] = "check"
    /\ IF ~ok
         THEN /\ upCheck' = [upCheck EXCEPT ![u] = "threw"]
              /\ upPc' = [upPc EXCEPT ![u] = "write"]
              /\ UNCHANGED upResp
         ELSE IF SameSize(materials, upFile[u]) = {}
           THEN /\ upCheck' = [upCheck EXCEPT ![u] = "null"]
                /\ upPc' = [upPc EXCEPT ![u] = "write"]
                /\ UNCHANGED upResp
           ELSE \E k \in SameSize(materials, upFile[u]) :
                  IF IsDuplicate(materials[k], upFile[u])
                    THEN /\ upCheck' = [upCheck EXCEPT ![u] = "same"]
                         /\ upPc' = [upPc EXCEPT ![u] = "done"]
                         /\ upResp' = [upResp EXCEPT ![u] =
                                         [code |-> 200, id |-> materials[k].id,
                                          duplicate |-> TRUE]]
                    ELSE /\ upCheck' = [upCheck EXCEPT ![u] = "other"]
                         /\ upPc' = [upPc EXCEPT ![u] = "write"]
                         /\ UNCHANGED upResp
    /\ UNCHANGED <<materials, upFile, upRuns, deleteVars, status, notUpload>>

\* await writeFile(filePath, buffer)
SaveFile ==
  \E u \in Uploads, ok \in BOOLEAN :
    /\ upPc[u] = "write"
    /\ upPc' = [upPc EXCEPT ![u] = IF ok THEN "create" ELSE "done"]
    /\ upResp' = IF ok THEN upResp
                 ELSE [upResp EXCEPT ![u] = [NoResponse EXCEPT !.code = 500]]
    /\ UNCHANGED <<materials, upFile, upCheck, upRuns, deleteVars, status,
                   notUpload>>

\* the id of the next record: every record made so far got a run
NextId(runs) == Cardinality(runs) + 1

\* a sequence without its element at place k
Without(seq, k) ==
  [n \in 1..(Len(seq) - 1) |-> IF n < k THEN seq[n] ELSE seq[n + 1]]

\* await prisma.material.create({ ... processingStatus: 'PROCESSING' }) and
\* processDocumentAsync(material.id, ...); a failing create is answered 500
CreateMaterial ==
  \E u \in Uploads, ok \in BOOLEAN :
    /\ upPc[u] = "create"
    /\ upPc' = [upPc EXCEPT ![u] = "done"]
    /\ IF ok
         THEN /\ materials' = Append(materials,
                                [id |-> NextId(upRuns),
                                 fileName |-> upFile[u].name,
                                 fileSize |-> upFile[u].size,
                                 processingStatus |-> "PROCESSING",
                                 by |-> u])
              /\ upRuns' = upRuns \cup {NextId(upRuns)}
              /\ upResp' = [upResp EXCEPT ![u] =
                              [code |-> 200, id |-> NextId(upRuns),
                               duplicate |-> FALSE]]
         ELSE /\ upResp' = [upResp EXCEPT ![u] =
                              [NoResponse EXCEPT !.code = 500]]
              /\ UNCHANGED <<materials, upRuns>>
    /\ UNCHANGED <<upFile, upCheck, deleteVars, status, notUpload>>

\* the places of the stored records with that id
WithId(stored, id) == {k \in DOMAIN stored : stored[k].id = id}

\* DELETE /api/materials/[id] up to prisma.material.delete: 503 without
\* DATABASE_URL, 500 when findUnique rejects, 404 when it finds no record
DeleteFind ==
  /\ delPc = "idle"
  /\ \/ delResp' \in {503, 500} /\ delPc' = "idle" /\ delId' = 0
     \/ \E id \in Uploads :
          IF WithId(materials, id) = {}
            THEN delResp' = 404 /\ delPc' = "idle" /\ delId' = 0
            ELSE delResp' = 0 /\ delPc' = "delete" /\ delId' = id
  /\ UNCHANGED <<materials, upPc, upFile, upCheck, upResp, upRuns, status,
                 notUpload>>

\* await prisma.material.delete({ where: { id } }): the record is removed,
\* or the delete rejects and the catch answers 500
DeleteRemove ==
  \E ok \in BOOLEAN :
    /\ delPc = "delete"
    /\ IF ok /\ WithId(materials, delId) # {}
         THEN /\ materials' =
                   Without(materials, CHOOSE k \in WithId(materials, delId) : TRUE)
              /\ delPc' = "unlink"
              /\ UNCHANGED <<delId, delResp>>
         ELSE /\ delResp' = 500
              /\ delPc' = "idle"
              /\ delId' = 0
              /\ UNCHANGED materials
    /\ UNCHANGED <<upPc, upFile, upCheck, upResp, upRuns, status, notUpload>>

\* the rest of DELETE: await unlink(material.fileUrl), whose failure is
\* logged only, and the response { success: true }
DeleteAnswer ==
  /\ delPc = "unlink"
  /\ delResp' = 200
  /\ delPc' = "idle"
  /\ delId' = 0
  /\ UNCHANGED <<materials, upPc, upFile, upCheck, upResp, upRuns, status,
                 notUpload>>

\* the run POST started writes the status of its material: READY at its
\* end, ERROR in its outer catch; the update of a deleted record rejects
RunStatusUpdate ==
  \E k \in DOMAIN materials, st \in {"READY", "ERROR"} :
    /\ materials[k].processingStatus = "PROCESSING"
    /\ materials' = [materials EXCEPT ![k].processingStatus = st]
    /\ UNCHANGED <<upPc, upFile, upCheck, upResp, upRuns, deleteVars, status,
                   notUpload>>

UploadNext ==
  \/ UploadPost
  \/ DuplicateCheck
  \/ SaveFile
  \/ CreateMaterial
  \/ DeleteFind
  \/ DeleteRemove
  \/ DeleteAnswer
  \/ RunStatusUpdate

UploadInit == Init /\ indexConfigured = TRUE

UploadSpec == UploadInit /\ [][UploadNext]_vars

\* C40: no two stored materials have the same file name and size, unless the
\* duplicate check of the later upload threw; every material has one run
C40_NoSecondRecord ==
  \A first, second \in DOMAIN materials :
    (/\ first < second
     /\ materials[first].fileName = materials[second].fileName
     /\ materials[first].fileSize = materials[second].fileSize)
      => upCheck[materials[second].by] = "threw"

====
